---- MODULE Spec2Model ----
(***************************************************************************)
(* AgriMRV: the MRV package pipeline (export, ledger anchor, verify) and   *)
(* the stores around it, as a state machine.  Request handlers are split   *)
(* at their awaits; the code between two awaits runs without interleaving  *)
(* (single-threaded event loop).                                           *)
(***************************************************************************)
EXTENDS Integers, Sequences, FiniteSets, TLC

\* ---------------------------------------------------------------- bounds
MaxExport == 2     \* export requests started in one behaviour
MaxVerify == 1     \* verify requests started in one behaviour
MaxTick == 2       \* the clock shows 0..MaxTick smallest units ("milliseconds")
MsPerSec == 2      \* smallest units in one second of the clock
MaxTamper == 1     \* modifications of the storage area from outside the API
MaxStore == 1      \* writes to trees, carbon_estimates and carbon_market_prices
MaxRecord == 2      \* recordCarbonData calls made
MaxLedger == 3      \* createLedgerEntry requests served
MaxCredit == 3     \* requests to the carbon credit service
MaxEstimate == 2   \* requests to the estimation service in one behaviour

\* ------------------------------------------------------------ the domain
Slots == {"h1", "h2"}                 \* request handlers in flight together
PlotTbl == {"p1", "p2"}               \* rows of "Plot" (by id)
PlotIdArgs == PlotTbl \cup {"p0"}     \* "p0" resolves to no plot
RunIds == {"r1", "r2"}                \* possible rows of "Run" (by id)
NoRow == "none"
PkgIdArgs == 1 .. (Cardinality(RunIds) + 1)
NoPkg == 0

NullNum == -1

TreeIds == {1, 2, 3}                  \* rows of trees (by id), all of plot 1
PlotIds == {1, 2}                     \* rows of plots (by id); plot 2 has no tree
PriceVals == {900}                    \* price_usd of a price update, in cents
InrVals == {75000}                    \* price_inr of a price update, in hundredths

T(s, m) == [sec |-> s, ms |-> m]
NoTime == T(-1, -1)

Max(a, b) == IF a >= b THEN a ELSE b

\* ------------------------------------------------- the biomass estimator
\* Units: height in metres, DBH in centimetres, canopy area in tenths of a
\* square metre, wood density in hundredths, raw biomass in grams, returned
\* kilograms in hundredths of a kilogram, uncertainty in tenths of a percent.
\* NullNum stands for a measurement that is null or undefined.
HeightVals == {NullNum, 0, 1, 4}
DbhVals == {NullNum, 0, 25, 200}
CanopyVals == {NullNum, 0, 2, 40}
NoSpecies == ""
SpeciesCodes == {NoSpecies, "ZZZ", "TEAK", "SAL"}
Measurements ==
  [height_meters : HeightVals, dbh_cm : DbhVals, canopy_cover_m2 : CanopyVals,
   species_code : SpeciesCodes]

\* rows of tree_species; their allometric coefficients are the default ones
tree_species ==
  [code \in {"TEAK", "SAL"} |->
     [wood_density_kg_m3 |-> 65, uncertainty_pct |-> IF code = "TEAK" THEN 15 ELSE 0]]

\* getSpeciesData returns a row (species_code given and found) or null
Resolved(species_code) == species_code # NoSpecies /\ species_code \in DOMAIN tree_species

\* v || d
OrDefault(v, d) == IF v = 0 \/ v = NullNum THEN d ELSE v

DefaultWoodDensity == 60
DefaultUncertainty == 25
woodDensity(species_code) ==
  IF Resolved(species_code)
  THEN OrDefault(tree_species[species_code].wood_density_kg_m3, DefaultWoodDensity)
  ELSE DefaultWoodDensity
speciesUncertainty(species_code) ==
  IF Resolved(species_code)
  THEN OrDefault(tree_species[species_code].uncertainty_pct, DefaultUncertainty)
  ELSE DefaultUncertainty

\* the ladder with the height-only test ahead of the crown test
BranchHeightFirst(m) ==
  IF m.dbh_cm > 0 /\ m.height_meters > 0 THEN 1
  ELSE IF m.height_meters > 0 THEN 3
  ELSE IF m.height_meters > 0 /\ m.canopy_cover_m2 > 0 THEN 2
  ELSE IF m.canopy_cover_m2 > 0 THEN 4
  ELSE 0

\* the ladder ending in the canopy branch, with no failure
BranchNoThrow(m) ==
  IF m.dbh_cm > 0 /\ m.height_meters > 0 THEN 1
  ELSE IF m.height_meters > 0 /\ m.canopy_cover_m2 > 0 THEN 2
  ELSE IF m.height_meters > 0 THEN 3
  ELSE 4

\* The branch of the if / else-if ladder that fires: 1 full allometric,
\* 2 crown-estimated DBH, 3 height only, 4 canopy only, 0 none (throws).
\* `x && x > 0` is x > 0 for numbers, null and undefined.
Branch(m) ==
  IF m.dbh_cm > 0 /\ m.height_meters > 0 THEN 1
  ELSE IF m.height_meters > 0 /\ m.canopy_cover_m2 > 0 THEN 2
  ELSE IF m.height_meters > 0 THEN 3
  ELSE IF m.canopy_cover_m2 > 0 THEN 4
  ELSE 0

\* the method label: a fixed name, followed by the species code in branch 1
\* when the species was resolved
Method(name, code) == [name |-> name, code |-> code]
NoMethod == Method("default", "")
MethodLabel(m) ==
  CASE Branch(m) = 1 ->
         IF Resolved(m.species_code) THEN Method("allometric_species_", m.species_code)
         ELSE Method("allometric_generic", "")
    [] Branch(m) = 2 -> Method("allometric_crown_estimated", "")
    [] Branch(m) = 3 -> Method("height_only_estimation", "")
    [] Branch(m) = 4 -> Method("crown_area_estimation", "")
    [] OTHER -> NoMethod

\* a * Math.pow(density * d^2 * height, b) in grams, with a = 0.0673 and
\* b = 0.976, tabulated for the modelled inputs: <<1, density, dbh_cm,
\* height>> with d = dbh_cm / 100, and <<2, density, canopy, height>> with
\* d = sqrt(canopy / PI) * 2 * 80 / 100.
AllometricTable ==
  <<1, 60, 25, 1>> :> 3 @@ <<1, 60, 25, 4>> :> 11 @@
  <<1, 60, 200, 1>> :> 158 @@ <<1, 60, 200, 4>> :> 612 @@
  <<1, 65, 25, 1>> :> 3 @@ <<1, 65, 25, 4>> :> 11 @@
  <<1, 65, 200, 1>> :> 171 @@ <<1, 65, 200, 4>> :> 662 @@
  <<2, 60, 2, 1>> :> 7 @@ <<2, 60, 2, 4>> :> 27 @@
  <<2, 60, 40, 1>> :> 130 @@ <<2, 60, 40, 4>> :> 501 @@
  <<2, 65, 2, 1>> :> 8 @@ <<2, 65, 2, 4>> :> 29 @@
  <<2, 65, 40, 1>> :> 140 @@ <<2, 65, 40, 4>> :> 542

\* Math.pow(h, 2.5) for a height that is a square number
Sqrt(n) == CHOOSE r \in 0 .. n : r * r = n
Pow25(h) == Sqrt(h) * Sqrt(h) * Sqrt(h) * Sqrt(h) * Sqrt(h)

\* biomassKg before the threshold, in grams
RawBiomass(m) ==
  LET density == woodDensity(m.species_code)
  IN  CASE Branch(m) = 1 -> AllometricTable[<<1, density, m.dbh_cm, m.height_meters>>]
        [] Branch(m) = 2 -> AllometricTable[<<2, density, m.canopy_cover_m2, m.height_meters>>]
        [] Branch(m) = 3 -> Pow25(m.height_meters) * density * 25
        [] OTHER -> m.canopy_cover_m2 * density * 15

\* no threshold applied
NoThreshold(rawG) == rawG

\* Math.max(biomassKg, 0.1), in grams
MinBiomassG == 100
Threshold(rawG) == Max(rawG, MinBiomassG)

\* Math.round(n / d) for n >= 0: halves round up
Round(n, d) == (2 * n + d) \div (2 * d)

\* Math.round(Math.sqrt(n) * 10), the nearest number of tenths
RoundSqrt10(n) == CHOOSE k \in 1 .. 500 : (2 * k - 1) * (2 * k - 1) <= 400 * n
                                           /\ 400 * n < (2 * k + 1) * (2 * k + 1)

getMethodUncertainty(method) ==
  CASE method.name = "allometric_species_" -> 15
    [] method.name = "allometric_generic" -> 20
    [] method.name = "allometric_crown_estimated" -> 25
    [] method.name = "height_only_estimation" -> 35
    [] method.name = "crown_area_estimation" -> 40
    [] OTHER -> 30

\* confidence of the branch that fired
Confidence(m) ==
  CASE Branch(m) = 1 ->
         IF Resolved(m.species_code) THEN 100 - speciesUncertainty(m.species_code) ELSE 75
    [] Branch(m) = 2 -> 60
    [] Branch(m) = 3 -> 40
    [] Branch(m) = 4 -> 35
    [] OTHER -> 50

CarbonFractionPct == 47      \* carbonFraction = 0.47
Co2FactorPct == 367          \* 3.67

NoEstimate ==
  [ ok |-> FALSE, error |-> "", biomass_estimate_kg |-> NullNum,
    carbon_sequestration_kg |-> NullNum, co2_equivalent_kg |-> NullNum,
    uncertainty_pct |-> NullNum, method |-> NoMethod, confidence_pct |-> NullNum ]
Insufficient == "Insufficient measurements for biomass estimation"

\* estimateBiomass: the estimate returned, or the error thrown
estimateBiomass(m) ==
  IF Branch(m) = 0 THEN [NoEstimate EXCEPT !.error = Insufficient]
  ELSE
    LET biomassG == Threshold(RawBiomass(m))
        method == MethodLabel(m)
        base == getMethodUncertainty(method)
        su == speciesUncertainty(m.species_code)
    IN  [ ok |-> TRUE, error |-> "",
          biomass_estimate_kg |-> Round(biomassG, 10),
          carbon_sequestration_kg |-> Round(biomassG * CarbonFractionPct, 1000),
          co2_equivalent_kg |-> Round(biomassG * CarbonFractionPct * Co2FactorPct, 100000),
          uncertainty_pct |-> IF Resolved(m.species_code)
                              THEN RoundSqrt10(base * base + su * su)
                              ELSE 10 * base,
          method |-> method,
          confidence_pct |-> Confidence(m) ]

\* "Tree" LEFT JOIN "CarbonEstimate": the rows the export query returns.
\* These tables are only read by the code under study.  Tree t2 has no
\* usable measurement.  The estimates stored are the estimator's results for
\* the trees it can estimate (EstimatorResults), in the estimator's units.
TreeTbl ==
  { [id |-> "t1", plotId |-> "p1", heightM |-> 4, dbhCm |-> 25, crownAreaM2 |-> 40],
    [id |-> "t2", plotId |-> "p1", heightM |-> 0, dbhCm |-> 0, crownAreaM2 |-> 0] }
MeasurementsOfTree(t) ==
  [height_meters |-> t.heightM, dbh_cm |-> t.dbhCm, canopy_cover_m2 |-> t.crownAreaM2,
   species_code |-> NoSpecies]
CarbonEstimateTbl ==
  { [treeId |-> "t1", agbKg |-> 10, carbonKg |-> 5] }
\* the estimator's results for the trees it can estimate
EstimatorResults ==
  { [treeId |-> t.id,
     agbKg |-> estimateBiomass(MeasurementsOfTree(t)).biomass_estimate_kg,
     carbonKg |-> estimateBiomass(MeasurementsOfTree(t)).carbon_sequestration_kg] :
    t \in {u \in TreeTbl : estimateBiomass(MeasurementsOfTree(u)).ok} }

\* ------------------------------------------------------------- hashing
\* SHA-256 is taken as injective: a digest is its preimage, tagged.
sha256OfString(s) == [sha |-> s]
sha256OfContent(c) == [sha |-> c]
NullHash == [sha |-> <<>>]

\* ------------------------------------------------------ paths and order
ArtifactNames ==
  {"inputs/trees.json", "outputs/estimates.json", "manifest.json", "reports/summary.md"}
ChecksumsName == "checksums.json"
AllNames == ArtifactNames \cup {ChecksumsName}

\* a folder named by the timestamp alone
PackageFolderNoPlot(plotId, t) == [plot |-> "none", ts |-> t.sec]

\* mrv_pkg_<plotId>_<timestamp>: the timestamp keeps the seconds, not the
\* milliseconds (ISO string stripped of ":.-" and cut to 15 characters).
FolderTimestamp(t) == t.sec
PackageFolder(plotId, t) == [plot |-> plotId, ts |-> FolderTimestamp(t)]
NoFolder == [plot |-> "none", ts |-> -1]
Path(folder, name) == [folder |-> folder, name |-> name]

\* Lexicographic order of the path strings.
PlotOrder == <<"none", "p0", "p1", "p2">>
NameOrder ==
  <<"checksums.json", "inputs/trees.json", "manifest.json", "outputs/estimates.json",
    "reports/summary.md">>
IndexIn(seq, x) == CHOOSE i \in 1 .. Len(seq) : seq[i] = x
PathLess(a, b) ==
  LET pa == IndexIn(PlotOrder, a.folder.plot)
      pb == IndexIn(PlotOrder, b.folder.plot)
      na == IndexIn(NameOrder, a.name)
      nb == IndexIn(NameOrder, b.name)
  IN  \/ pa < pb
      \/ pa = pb /\ a.folder.ts < b.folder.ts
      \/ pa = pb /\ a.folder.ts = b.folder.ts /\ na < nb

RECURSIVE Insert(_, _)
Insert(k, sorted) ==
  IF sorted = <<>> THEN <<k>>
  ELSE IF PathLess(k, Head(sorted)) THEN <<k>> \o sorted
  ELSE <<Head(sorted)>> \o Insert(k, Tail(sorted))

RECURSIVE SortKeys(_)
\* Array.prototype.sort() on the file keys
SortKeys(keys) ==
  IF keys = <<>> THEN <<>> ELSE Insert(Head(keys), SortKeys(Tail(keys)))

\* ------------------------------------------------------- the artifacts
TreesOf(plotId) == {t \in TreeTbl : t.plotId = plotId}
EstimateOf(treeId) == {e \in CarbonEstimateTbl : e.treeId = treeId}
AgbOf(t) == IF EstimateOf(t.id) = {} THEN NullNum ELSE (CHOOSE e \in EstimateOf(t.id) : TRUE).agbKg
CarbonOf(t) ==
  IF EstimateOf(t.id) = {} THEN NullNum ELSE (CHOOSE e \in EstimateOf(t.id) : TRUE).carbonKg

OrZero(v) == IF v = NullNum THEN 0 ELSE v

RECURSIVE SumAgb(_)
\* trees.reduce((a, b) => a + (b.agbKg ?? 0), 0)
SumAgb(S) ==
  IF S = {} THEN 0
  ELSE LET x == CHOOSE y \in S : TRUE IN OrZero(AgbOf(x)) + SumAgb(S \ {x})

RECURSIVE SumCarbon(_)
\* trees.reduce((a, b) => a + (b.carbonKg ?? 0), 0)
SumCarbon(S) ==
  IF S = {} THEN 0
  ELSE LET x == CHOOSE y \in S : TRUE IN OrZero(CarbonOf(x)) + SumCarbon(S \ {x})

\* tons are kept as kg (in hundredths) over 1000
Totals(plotId) ==
  [ totalTrees |-> Cardinality(TreesOf(plotId)),
    plotAGBTons |-> [kg |-> SumAgb(TreesOf(plotId)), per |-> 1000],
    plotCarbonTons |-> [kg |-> SumCarbon(TreesOf(plotId)), per |-> 1000] ]

InputsDoc(plotId) ==
  [ doc |-> "inputs", plot |-> plotId,
    trees |-> { [id |-> t.id, heightM |-> t.heightM, dbhCm |-> t.dbhCm,
                 crownAreaM2 |-> t.crownAreaM2] : t \in TreesOf(plotId) } ]
OutputsDoc(plotId) ==
  [ doc |-> "outputs",
    perTree |-> { [id |-> t.id, agbKg |-> AgbOf(t), carbonKg |-> CarbonOf(t)] :
                  t \in TreesOf(plotId) },
    totals |-> Totals(plotId) ]
ManifestDoc(plotId, t) ==
  [ doc |-> "manifest", schemaVersion |-> "1.0", generatedAt |-> t, plotId |-> plotId ]
SummaryDoc(plotId, t) ==
  [ doc |-> "summary", plot |-> plotId, totals |-> Totals(plotId), generated |-> t ]
ChecksumsDoc(entries) == [ doc |-> "checksums", files |-> entries ]
Junk(n) == [ doc |-> "junk", n |-> n ]
JunkContents == { Junk(1) }

\* The four artifacts in the order the export writes and hashes them.
WriteOrder ==
  <<"inputs/trees.json", "outputs/estimates.json", "manifest.json", "reports/summary.md">>
ArtifactContent(name, plotId, t) ==
  CASE name = "inputs/trees.json" -> InputsDoc(plotId)
    [] name = "outputs/estimates.json" -> OutputsDoc(plotId)
    [] name = "manifest.json" -> ManifestDoc(plotId, t)
    [] name = "reports/summary.md" -> SummaryDoc(plotId, t)


\* file:// URI of the package folder, and the folder read back from it
ArtifactsUri(folder) == [scheme |-> "file", path |-> folder]
UriToFolder(uri) == uri.path

\* `sim-${Date.now()}-${hashHex.slice(0,10)}`
TxId(t, hashHex) == [sim |-> t, hash |-> hashHex]
NullTx == [sim |-> NoTime, hash |-> NullHash]

\* --------------------------------------------------------------- state
VARIABLES
  now,                   \* the wall clock, [sec, ms]
  nExport,               \* export requests started so far
  nVerify,               \* verify requests started so far
  Run,                   \* "Run": run id -> plot id, or NoRow
  MRVPackage,            \* "MRVPackage": package id -> row
  folders,               \* package folders that exist under storage/packages
  files,                 \* path -> content, for the files that exist
  h,                     \* the request handlers in flight
  out,                   \* the last request answered, with its response
  trees,                 \* trees: tree id -> measurement row
  carbon_estimates,      \* carbon_estimates: the rows stored
  carbon_market_prices,  \* carbon_market_prices, in insertion order
  tampers,               \* changes made to the storage area from outside
  nStore,                \* writes made to the other stores
  est,                   \* the last call of estimateBiomass: input and outcome
  eh,                    \* the estimation request handlers in flight
  eout,                  \* the last answer of the estimation service
  nEstimate,             \* estimation requests started so far
  credit,                \* the last answer of the carbon credit service
  ch,                    \* the credit request of a plot in flight
  carbon_credit_calculations,  \* carbon_credit_calculations, in insertion order
  nCredit,               \* credit requests started so far
  anchored,              \* the last call of anchorHash on its own: rows matched, outcome
  ledger,                \* ledger, in insertion order
  lh,                    \* the createLedgerEntry requests in flight
  lout,                  \* the last answer of createLedgerEntry
  nLedger,               \* createLedgerEntry requests started so far
  carbon_credit_blockchain,  \* carbon_credit_blockchain: record id -> row
  timers,                \* the scheduled confirmations: record id -> position
  rh,                    \* the recordCarbonData call in flight
  rout,                  \* the outcome of the last recordCarbonData call
  nRecord,               \* recordCarbonData calls made so far
  everWritten,           \* history: paths some export has written
  pkgGhost               \* history per package: who built it, what ran since

nReq == <<nExport, nVerify>>

vars ==
  <<now, nExport, nVerify, Run, MRVPackage, folders, files, h, out, trees, carbon_estimates,
    carbon_market_prices, tampers, nStore, everWritten, pkgGhost, est, eh, eout, nEstimate,
    credit, ch, carbon_credit_calculations, nCredit, anchored, ledger, lh, lout, nLedger,
    carbon_credit_blockchain, timers, rh, rout, nRecord>>

dbVars == <<Run, MRVPackage>>
fsVars == <<folders, files, everWritten>>
estVars == <<est, eh, eout, nEstimate>>
creditVars == <<credit, ch, carbon_credit_calculations, nCredit>>
ledgerVars == <<ledger, lh, lout, nLedger>>
recordVars == <<carbon_credit_blockchain, timers, rh, rout, nRecord>>
serviceVars == <<creditVars, anchored, ledgerVars, recordVars>>
otherTables ==
  <<trees, carbon_estimates, carbon_market_prices, nStore, estVars, serviceVars>>

NullRow == [runId |-> NoRow, artifactsUri |-> ArtifactsUri(NoFolder), checksum |-> NullHash,
            ledgerTxId |-> NullTx]
NoResp == [status |-> 0, keys |-> {}, error |-> "", pkgId |-> NoPkg, hash |-> NullHash,
           recomputed |-> NullHash, matches |-> FALSE, ledgerTxId |-> NullTx,
           artifactsUri |-> ArtifactsUri(NoFolder)]
ErrorResp(status, message) ==
  [NoResp EXCEPT !.status = status, !.keys = {"error"}, !.error = message]

IdleSlot ==
  [ op |-> "idle", pc |-> "idle", plotId |-> "none", pkgArg |-> NoPkg,
    folder |-> NoFolder, topHash |-> NullHash, pkgId |-> NoPkg, row |-> NullRow,
    failAt |-> 0, written |-> {}, hashed |-> {}, overwrote |-> FALSE, lvl |-> 0,
    orig |-> <<>>, sawTx |-> NullTx, resp |-> NoResp ]

Free(s) == h[s].pc = "idle"

\* the record kept of an answered request: what the response and the history need
Answer(slot, resp) ==
  [slot EXCEPT !.pc = "done", !.resp = resp, !.folder = NoFolder, !.topHash = NullHash,
     !.row = NullRow, !.orig = <<>>]
InFlight(s) == ~Free(s)

\* ORDER BY "createdAt" DESC LIMIT 1: run ids are in creation order
RunRank(r) == IF r = "r1" THEN 1 ELSE 2
RunsOf(plotId) == {r \in RunIds : Run[r] = plotId}
LatestRun(plotId) ==
  IF RunsOf(plotId) = {} THEN NoRow
  ELSE CHOOSE r \in RunsOf(plotId) : \A q \in RunsOf(plotId) : RunRank(q) <= RunRank(r)

\* the "Run" tables a behaviour may start from; nothing in the code writes "Run"
RunTables ==
  { [r \in RunIds |-> IF r = "r1" THEN "p1" ELSE "p2"],
    [r \in RunIds |-> "p1"] }

\* rows of trees: the measurements and the plot
RowFull == [height_meters |-> 4, dbh_cm |-> 25, canopy_cover_m2 |-> 40, species_code |-> "TEAK"]
RowNone ==
  [height_meters |-> NullNum, dbh_cm |-> NullNum, canopy_cover_m2 |-> NullNum,
   species_code |-> NoSpecies]
RowHeight ==
  [height_meters |-> 1, dbh_cm |-> NullNum, canopy_cover_m2 |-> NullNum,
   species_code |-> NoSpecies]
RowDbhCanopy ==
  [height_meters |-> NullNum, dbh_cm |-> 200, canopy_cover_m2 |-> 2, species_code |-> "ZZZ"]
RowZero == [height_meters |-> 0, dbh_cm |-> 0, canopy_cover_m2 |-> 0, species_code |-> "SAL"]
RowCrown == [height_meters |-> 1, dbh_cm |-> 0, canopy_cover_m2 |-> 2, species_code |-> "SAL"]

TreeRow(m) == [plot_id |-> 1, m |-> m]
InitialTrees ==
  [id \in TreeIds |-> TreeRow(CASE id = 1 -> RowFull [] id = 2 -> RowNone [] OTHER -> RowDbhCanopy)]
\* the tables of trees a behaviour of the estimation service may start from
TreeTables ==
  { [id \in TreeIds |->
       CASE id = 1 -> TreeRow(r1) [] id = 2 -> TreeRow(r2)
         [] OTHER -> [plot_id |-> p3, m |-> r3]] :
      r1 \in {RowFull, RowZero}, r2 \in {RowNone, RowHeight},
      r3 \in {RowDbhCanopy, RowZero}, p3 \in PlotIds }
\* the measurements an update of a tree sets
TreeUpdates == {RowNone, RowCrown}

\* a row of carbon_estimates: the tree and the four columns storeEstimate writes
StoredRow(treeId, estimate) ==
  [ tree_id |-> treeId,
    biomass_estimate_kg |-> estimate.biomass_estimate_kg,
    carbon_sequestration_kg |-> estimate.carbon_sequestration_kg,
    method |-> estimate.method, confidence_pct |-> estimate.confidence_pct ]
NoStored == StoredRow(0, NoEstimate)
StoredOf(tbl, treeId) == {r \in tbl : r.tree_id = treeId}
\* the estimates passed to storeEstimate
EstimateArgs == {estimateBiomass(m) : m \in {RowFull, RowHeight}}

NoPlotResult ==
  [ trees |-> <<>>,
    totals |-> [total_trees |-> 0, total_biomass_kg |-> 0, total_carbon_kg |-> 0,
                total_co2_equivalent_kg |-> 0, average_uncertainty_pct |-> 0] ]
NoAnswer ==
  [ op |-> "none", status |-> 0, error |-> "", id |-> 0, estimate |-> NoEstimate,
    stored |-> NoStored, result |-> NoPlotResult ]
EIdle == [pc |-> "idle", treeId |-> 0, estimate |-> NoEstimate]
NoCall ==
  [m |-> RowNone, r |-> NoEstimate, called |-> FALSE, prev |-> NoEstimate, again |-> FALSE]

\* the carbon credit service: what a call or a request answered
NoCredits ==
  [ carbonStockKg |-> NullNum, carbonStockTons |-> NullNum, co2EquivalentKg |-> NullNum,
    co2EquivalentTons |-> NullNum, creditsGenerated |-> NullNum ]
NoCreditResult ==
  [ biomass_kg |-> NullNum, carbon_stock_kg |-> NullNum, carbon_stock_tons |-> NullNum,
    co2_equivalent_kg |-> NullNum, co2_equivalent_tons |-> NullNum,
    credits_generated |-> NullNum, market_price_usd |-> NullNum, market_price_inr |-> NullNum,
    estimated_value_usd |-> NullNum, estimated_value_inr |-> NullNum,
    calculation_date |-> NoTime ]
NoCalculation == [user_id |-> "", plot_id |-> 0, result |-> NoCreditResult]
NoCreditAnswer ==
  [ op |-> "none", status |-> 0, biomassKg |-> NullNum, credits |-> NoCredits,
    result |-> NoCreditResult, stored |-> NoCalculation, prices |-> <<>>, dbFail |-> FALSE ]
NoLedgerAnswer == [status |-> 0, estimate_id |-> 0, entry |-> 0, dbFail |-> FALSE]
LIdle == [pc |-> "idle", estimate_id |-> 0, tx_id |-> "", estimate |-> NoStored, hash |-> NullHash]
NoRecord ==
  [ error |-> FALSE, recordId |-> -1, transactionHash |-> "", blockNumber |-> -1,
    gasUsed |-> "", status |-> "", farmer |-> "", dataHash |-> NullHash, carbonValue |-> -1 ]
RIdle == [pc |-> "idle", id |-> 0, transactionHash |-> "", farmer |-> "", dataHash |-> NullHash,
          carbonValue |-> -1]
NoAnchor == [txId |-> NullTx, rowCount |-> -1, error |-> FALSE]
CIdle ==
  [ pc |-> "idle", userId |-> "", plotId |-> 0, result |-> NoCreditResult,
    prices |-> <<>>, dbFail |-> FALSE ]

InitCommon ==
  /\ now = T(0, 0)
  /\ nExport = 0
  /\ nVerify = 0
  /\ Run \in RunTables
  /\ MRVPackage = <<>>
  /\ folders = {}
  /\ files = <<>>
  /\ h = [s \in Slots |-> IdleSlot]
  /\ out = IdleSlot
  /\ carbon_estimates = {}
  /\ carbon_market_prices = <<>>
  /\ tampers = 0
  /\ nStore = 0
  /\ everWritten = {}
  /\ pkgGhost = <<>>
  /\ eh = [s \in Slots |-> EIdle]
  /\ eout = NoAnswer
  /\ nEstimate = 0
  /\ credit = NoCreditAnswer
  /\ ch = CIdle
  /\ carbon_credit_calculations = <<>>
  /\ nCredit = 0
  /\ anchored = NoAnchor
  /\ ledger = <<>>
  /\ lh = [s \in Slots |-> LIdle]
  /\ lout = NoLedgerAnswer
  /\ nLedger = 0
  /\ carbon_credit_blockchain = <<>>
  /\ timers = <<>>
  /\ rh = RIdle
  /\ rout = NoRecord
  /\ nRecord = 0

Init == InitCommon /\ trees = InitialTrees /\ est = NoCall
\* the estimation service starts from any of the tables of trees
InitEstimate == InitCommon /\ trees \in TreeTables /\ est = NoCall
\* the estimator starts with any measurements as its argument
InitEstimator ==
  InitCommon /\ trees = InitialTrees /\ est \in {[NoCall EXCEPT !.m = m] : m \in Measurements}

\* ------------------------------------------------- history bookkeeping
\* What a step of one operation is to a package of plot `target`: 2 when it
\* is an export of the same plot or a change from outside, 1 otherwise.
OpLevel(kind, actPlot, target) ==
  IF kind = "env" \/ (kind = "export" /\ actPlot = target) THEN 2 ELSE 1

BumpSlots(actor, kind, actPlot) ==
  [s \in Slots |->
     IF s = actor \/ Free(s) THEN h[s]
     ELSE [h[s] EXCEPT !.lvl = Max(@, OpLevel(kind, actPlot, h[s].plotId))]]

BumpPkgs(kind, actPlot, own) ==
  [id \in DOMAIN pkgGhost |->
     IF id = own THEN pkgGhost[id]
     ELSE [pkgGhost[id] EXCEPT !.lvl = Max(@, OpLevel(kind, actPlot, pkgGhost[id].plot))]]

\* --------------------------------------------------------------- clock
\* The clock is read by new Date(), Date.now() and NOW(); a reading is any
\* time not before the previous reading.
Times == {T(k \div MsPerSec, k % MsPerSec) : k \in 0 .. MaxTick}
NotBefore(a, b) == a.sec > b.sec \/ (a.sec = b.sec /\ a.ms >= b.ms)
ClockRead(t) == t \in Times /\ NotBefore(t, now) /\ now' = t

\* ------------------------------------------------------------- storage
\* writeFileRel for each name of `names` in `folder`
WriteFiles(fs, folder, names, plotId, t) ==
  [p \in DOMAIN fs \cup {Path(folder, n) : n \in names} |->
     IF p.folder = folder /\ p.name \in names
     THEN ArtifactContent(p.name, plotId, t)
     ELSE fs[p]]

WriteOne(fs, path, content) ==
  [p \in DOMAIN fs \cup {path} |-> IF p = path THEN content ELSE fs[p]]

\* sha256OfFile: throws when the file does not exist, else hashes its bytes
sha256OfFileThrows(fs, path) == path \notin DOMAIN fs
sha256OfFile(fs, path) == sha256OfContent(fs[path])

\* ------------------------------------------------------ exportMRVPackage
\* Where an injected I/O failure hits the synchronous block of the export:
\* 0 none, 1..4 the write of artifact 1..4, 5..8 the hash of artifact 1..4,
\* 9 the write of checksums.json.  AnchorFailed marks an injected persistence
\* failure of the anchor update.
FailPoints == {0, 2, 6, 9}
AnchorFailed == 10
NumWritten(f) == IF f = 0 \/ f >= 5 THEN 4 ELSE f - 1
NumHashed(f) == IF f = 0 \/ f = 9 THEN 4 ELSE IF f >= 5 THEN f - 5 ELSE 0
NamesUpTo(n) == {WriteOrder[i] : i \in 1 .. n}

\* only a failed write aborts; a failed hash is passed over
ExportThrowsOnWriteOnly(f) == f \in (1 .. 4) \cup {9}

\* does the synchronous block throw (lines 105-128 of the export)?
ExportThrows(f) == f # 0

\* checksums.files, in insertion order
ChecksumEntries(fs, folder) ==
  [i \in 1 .. 4 |->
     [key |-> Path(folder, WriteOrder[i]),
      digest |-> sha256OfFile(fs, Path(folder, WriteOrder[i]))]]

KeysOf(entries) == [i \in 1 .. Len(entries) |-> entries[i].key]
DigestOf(entries, k) == (CHOOSE i \in 1 .. Len(entries) : entries[i].key = k)

\* Object.keys(checksums.files).sort().map(k => checksums.files[k]).join('|'),
\* then sha256OfString
TopHash(entries) ==
  LET sorted == SortKeys(KeysOf(entries))
  IN  sha256OfString([i \in 1 .. Len(sorted) |-> entries[DigestOf(entries, sorted[i])].digest])

\* every failure of the export endpoint is answered with this status
ExportErrorStatus(message) == 500

ExportStart(s, plotId) ==
  /\ Free(s)
  /\ nExport < MaxExport
  /\ nExport' = nExport + 1
  /\ LET base == [IdleSlot EXCEPT !.op = "export", !.plotId = plotId]
     IN  IF plotId \in PlotTbl
         THEN /\ h' = [BumpSlots(s, "export", plotId) EXCEPT ![s] = [base EXCEPT !.pc = "write"]]
              /\ UNCHANGED out
         ELSE /\ h' = BumpSlots(s, "export", plotId)
              /\ out' = Answer(base, ErrorResp(ExportErrorStatus("Plot not found"),
                                               "Plot not found"))
  /\ pkgGhost' = BumpPkgs("export", plotId, NoPkg)
  /\ UNCHANGED <<now, nVerify, dbVars, fsVars, otherTables, tampers>>

\* The synchronous block of the export (lines 27-132): folder name, the four
\* artifacts, their hashes, checksums.json and the top hash.  The block reads
\* the clock for the folder name, the manifest and the summary; the three
\* readings are taken as one.
ExportWrite(s) ==
  /\ h[s].op = "export" /\ h[s].pc = "write"
  /\ \E f \in FailPoints, t \in Times :
       LET plotId == h[s].plotId
           folder == PackageFolder(plotId, t)
           artifacts == NamesUpTo(NumWritten(f))
           fs1 == WriteFiles(files, folder, artifacts, plotId, t)
           entries == ChecksumEntries(fs1, folder)
           fs2 == IF f = 0
                  THEN WriteOne(fs1, Path(folder, ChecksumsName), ChecksumsDoc(entries))
                  ELSE fs1
           names == artifacts \cup (IF f = 0 THEN {ChecksumsName} ELSE {})
           paths == {Path(folder, n) : n \in names}
           me == [h[s] EXCEPT !.folder = folder, !.failAt = f, !.written = names,
                    !.hashed = NamesUpTo(NumHashed(f)),
                    !.overwrote = (paths \cap everWritten # {}),
                    !.orig = [n \in names |-> fs2[Path(folder, n)]],
                    !.lvl = 0,
                    !.topHash = IF ExportThrows(f) THEN NullHash ELSE TopHash(entries),
                    !.pc = "insert"]
       IN  /\ ClockRead(t)
           /\ files' = fs2
           /\ folders' = IF names = {} THEN folders ELSE folders \cup {folder}
           /\ everWritten' = everWritten \cup paths
           /\ h' = [BumpSlots(s, "export", plotId) EXCEPT
                       ![s] = IF ExportThrows(f) THEN IdleSlot ELSE me]
           /\ out' = IF ExportThrows(f)
                     THEN Answer(me, ErrorResp(ExportErrorStatus("io"), "io"))
                     ELSE out
           /\ pkgGhost' = BumpPkgs("export", plotId, NoPkg)
  /\ UNCHANGED <<nReq, dbVars, otherTables, tampers>>

\* run?.id ?? plot.id
RunIdFor(plotId) == IF LatestRun(plotId) = NoRow THEN plotId ELSE LatestRun(plotId)
\* MRVPackage_runId_fkey and MRVPackage_runId_key
ForeignKeyOk(runId) == runId \in RunIds /\ Run[runId] # NoRow
UniqueOk(tbl, runId) == \A id \in DOMAIN tbl : tbl[id].runId # runId
InsertError(tbl, runId) ==
  IF ~ForeignKeyOk(runId) THEN "MRVPackage_runId_fkey"
  ELSE IF ~UniqueOk(tbl, runId) THEN "MRVPackage_runId_key"
  ELSE ""

ExportInsert(s) ==
  /\ h[s].op = "export" /\ h[s].pc = "insert"
  /\ LET plotId == h[s].plotId
           runId == RunIdFor(plotId)
           err == InsertError(MRVPackage, runId)
           id == Len(MRVPackage) + 1
           row == [runId |-> runId, artifactsUri |-> ArtifactsUri(h[s].folder),
                   checksum |-> h[s].topHash, ledgerTxId |-> NullTx]
       IN  IF err # ""
           THEN /\ h' = [BumpSlots(s, "export", plotId) EXCEPT ![s] = IdleSlot]
                /\ out' = Answer(h[s], ErrorResp(ExportErrorStatus(err), err))
                /\ pkgGhost' = BumpPkgs("export", plotId, NoPkg)
                /\ UNCHANGED MRVPackage
           ELSE /\ MRVPackage' = Append(MRVPackage, row)
                /\ h' = [BumpSlots(s, "export", plotId) EXCEPT ![s] =
                           [h[s] EXCEPT !.pc = "anchor", !.pkgId = id]]
                /\ UNCHANGED out
                /\ pkgGhost' = Append(BumpPkgs("export", plotId, NoPkg),
                                      [plot |-> plotId, lvl |-> h[s].lvl, orig |-> h[s].orig,
                                       respTx |-> NullTx,
                                       written |-> h[s].written, hashed |-> h[s].hashed])
  /\ UNCHANGED <<now, nExport, nVerify, Run, fsVars, otherTables, tampers>>

\* the update without its WHERE clause
AnchorUpdateAll(tbl, pkgId, txId) ==
  [id \in DOMAIN tbl |-> [tbl[id] EXCEPT !.ledgerTxId = txId]]

\* UPDATE "MRVPackage" SET "ledgerTxId" = $1 WHERE id = $2
AnchorUpdate(tbl, pkgId, txId) ==
  [id \in DOMAIN tbl |->
     IF id = pkgId THEN [tbl[id] EXCEPT !.ledgerTxId = txId] ELSE tbl[id]]

\* the anchor step of the export endpoint, and its response
ExportAnchor(s) ==
  /\ h[s].op = "export" /\ h[s].pc = "anchor"
  /\ \E dbFail \in BOOLEAN, t \in Times :
       LET txId == TxId(t, h[s].topHash)
       IN  /\ ClockRead(t)
           /\ IF dbFail
              THEN /\ out' = Answer([h[s] EXCEPT !.failAt = AnchorFailed],
                                    ErrorResp(ExportErrorStatus("db"), "db"))
                   /\ UNCHANGED MRVPackage
                   /\ pkgGhost' = BumpPkgs("anchor", h[s].plotId, h[s].pkgId)
              ELSE /\ MRVPackage' = AnchorUpdate(MRVPackage, h[s].pkgId, txId)
                   /\ out' = Answer(h[s],
                                    [NoResp EXCEPT !.status = 200,
                                       !.keys = {"pkgId", "hash", "artifactsUri", "ledgerTxId"},
                                       !.pkgId = h[s].pkgId, !.hash = h[s].topHash,
                                       !.artifactsUri = ArtifactsUri(h[s].folder),
                                       !.ledgerTxId = txId])
                   /\ pkgGhost' = [BumpPkgs("anchor", h[s].plotId, h[s].pkgId) EXCEPT
                                     ![h[s].pkgId].respTx = txId]
  /\ h' = [BumpSlots(s, "anchor", h[s].plotId) EXCEPT ![s] = IdleSlot]
  /\ UNCHANGED <<nReq, Run, fsVars, otherTables, tampers>>

\* the rows the update matches
RowCount(tbl, pkgId) == IF pkgId \in DOMAIN tbl THEN 1 ELSE 0

\* an anchor call that refuses an update matching no row
AnchorResultChecked(txId, rowCount) ==
  IF rowCount = 0 THEN [txId |-> NullTx, rowCount |-> rowCount, error |-> TRUE]
  ELSE [txId |-> txId, rowCount |-> rowCount, error |-> FALSE]

\* return { txId }: the result of the query is not looked at
AnchorResult(txId, rowCount) == [txId |-> txId, rowCount |-> rowCount, error |-> FALSE]

\* anchorHash called on its own
AnchorHash(pkgId, hashHex) ==
  /\ nStore < MaxStore
  /\ nStore' = nStore + 1
  /\ \E t \in Times :
       /\ ClockRead(t)
       /\ MRVPackage' = AnchorUpdate(MRVPackage, pkgId, TxId(t, hashHex))
       /\ anchored' = AnchorResult(TxId(t, hashHex), RowCount(MRVPackage, pkgId))
  /\ h' = BumpSlots("none", "anchor", "none")
  /\ pkgGhost' = BumpPkgs("anchor", "none", NoPkg)
  /\ UNCHANGED <<nReq, Run, fsVars, out, trees, carbon_estimates, carbon_market_prices,
                 tampers, estVars, creditVars, ledgerVars, recordVars>>


\* the file hashes joined in the order checksums.json lists them
RecomputedUnsorted(fs, entries) ==
  sha256OfString([i \in 1 .. Len(entries) |-> sha256OfFile(fs, entries[i].key)])

\* the digests recorded in checksums.json joined, no file read again
RecomputedFromRecorded(fs, entries) ==
  LET keys == SortKeys(KeysOf(entries))
  IN  sha256OfString([i \in 1 .. Len(keys) |-> entries[DigestOf(entries, keys[i])].digest])

\* ------------------------------------------------- GET /mrv/:pkgId/verify
\* fileKeys.map(k => sha256OfFile(storage/k)).join('|'), then sha256OfString
\* a recomputation that also compares each recorded digest with the file's
RecomputedChecked(fs, entries) ==
  LET keys == SortKeys(KeysOf(entries))
  IN  IF \E i \in 1 .. Len(entries) : entries[i].digest # sha256OfFile(fs, entries[i].key)
      THEN sha256OfString(<<>>)
      ELSE sha256OfString([i \in 1 .. Len(keys) |-> sha256OfFile(fs, keys[i])])

Recomputed(fs, entries) ==
  LET keys == SortKeys(KeysOf(entries))
  IN  sha256OfString([i \in 1 .. Len(keys) |-> sha256OfFile(fs, keys[i])])

\* JSON.parse of checksums.json and the read of its "files" member succeed
Parses(content) == content.doc = "checksums"

\* a listed file that is missing counts as a mismatch
VerifyResponseLenient(fs, dirs, pkgId, row) ==
  LET folder == UriToFolder(row.artifactsUri)
      checksumPath == Path(folder, ChecksumsName)
      mismatch == [NoResp EXCEPT !.status = 200,
                     !.keys = {"pkgId", "storedChecksum", "recomputedChecksum", "matches",
                               "ledgerTxId"},
                     !.pkgId = pkgId, !.hash = row.checksum, !.matches = FALSE,
                     !.ledgerTxId = row.ledgerTxId]
  IN  IF folder \notin dirs THEN ErrorResp(404, "Package files not found")
      ELSE IF checksumPath \notin DOMAIN fs THEN ErrorResp(404, "Checksums file not found")
      ELSE IF ~Parses(fs[checksumPath]) THEN ErrorResp(500, "parse")
      ELSE LET entries == fs[checksumPath].files
           IN  IF \E i \in 1 .. Len(entries) : sha256OfFileThrows(fs, entries[i].key)
               THEN mismatch
               ELSE [mismatch EXCEPT !.recomputed = Recomputed(fs, entries),
                                     !.matches = (row.checksum = Recomputed(fs, entries))]

VerifyStart(s, pkgId) ==
  /\ Free(s)
  /\ nVerify < MaxVerify
  /\ nVerify' = nVerify + 1
  /\ LET found == pkgId \in DOMAIN MRVPackage
         plot == IF found THEN pkgGhost[pkgId].plot ELSE "none"
         base == [IdleSlot EXCEPT !.op = "verify", !.pkgArg = pkgId]
     IN  IF found
         THEN /\ h' = [BumpSlots(s, "verify", "none") EXCEPT ![s] =
                         [base EXCEPT !.pc = "check", !.plotId = plot,
                            !.row = MRVPackage[pkgId], !.lvl = pkgGhost[pkgId].lvl,
                            !.sawTx = pkgGhost[pkgId].respTx]]
              /\ UNCHANGED out
         ELSE /\ h' = BumpSlots(s, "verify", "none")
              /\ out' = Answer(base, ErrorResp(404, "Package not found"))
  /\ pkgGhost' = BumpPkgs("verify", "none", NoPkg)
  /\ UNCHANGED <<now, nExport, dbVars, fsVars, otherTables, tampers>>

VerifyResponse(fs, dirs, pkgId, row) ==
  LET folder == UriToFolder(row.artifactsUri)
      checksumPath == Path(folder, ChecksumsName)
  IN  IF folder \notin dirs THEN ErrorResp(404, "Package files not found")
      ELSE IF checksumPath \notin DOMAIN fs THEN ErrorResp(404, "Checksums file not found")
      ELSE IF ~Parses(fs[checksumPath]) THEN ErrorResp(500, "parse")
      ELSE LET entries == fs[checksumPath].files
           IN  IF \E i \in 1 .. Len(entries) : sha256OfFileThrows(fs, entries[i].key)
               THEN ErrorResp(500, "Failed to hash file")
               ELSE [NoResp EXCEPT !.status = 200,
                       !.keys = {"pkgId", "storedChecksum", "recomputedChecksum", "matches",
                                 "ledgerTxId"},
                       !.pkgId = pkgId, !.hash = row.checksum,
                       !.recomputed = Recomputed(fs, entries),
                       !.matches = (row.checksum = Recomputed(fs, entries)),
                       !.ledgerTxId = row.ledgerTxId]

\* a verify that stores the recomputed checksum when it finds a mismatch
VerifyCheckRepair(s) ==
  /\ h[s].op = "verify" /\ h[s].pc = "check"
  /\ LET resp == VerifyResponse(files, folders, h[s].pkgArg, h[s].row)
     IN  /\ out' = Answer(h[s], resp)
         /\ MRVPackage' = IF resp.status = 200 /\ ~resp.matches
                          THEN [MRVPackage EXCEPT ![h[s].pkgArg].checksum = resp.recomputed]
                          ELSE MRVPackage
  /\ h' = [BumpSlots(s, "verify", "none") EXCEPT ![s] = IdleSlot]
  /\ pkgGhost' = BumpPkgs("verify", "none", NoPkg)
  /\ UNCHANGED <<now, nReq, Run, fsVars, otherTables, tampers>>

VerifyCheck(s) ==
  /\ h[s].op = "verify" /\ h[s].pc = "check"
  /\ h' = [BumpSlots(s, "verify", "none") EXCEPT ![s] = IdleSlot]
  /\ out' = Answer(h[s], VerifyResponse(files, folders, h[s].pkgArg, h[s].row))
  /\ pkgGhost' = BumpPkgs("verify", "none", NoPkg)
  /\ UNCHANGED <<now, nReq, dbVars, fsVars, otherTables, tampers>>

\* ----------------------------------------------- the other stores
\* UPDATE trees SET height_meters, canopy_cover_m2, dbh_cm, species_code, ...
\* WHERE id = $6
updateTree(id, m) ==
  /\ nStore < MaxStore
  /\ nStore' = nStore + 1
  /\ trees' = [trees EXCEPT ![id].m = m]
  /\ h' = BumpSlots("none", "updateTree", "none")
  /\ pkgGhost' = BumpPkgs("updateTree", "none", NoPkg)
  /\ UNCHANGED <<now, nReq, dbVars, fsVars, out, carbon_estimates, carbon_market_prices,
                 tampers, estVars, serviceVars>>

\* an upsert that leaves method and confidence_pct of an existing row alone
UpsertKeepMethod(tbl, treeId, estimate) ==
  IF StoredOf(tbl, treeId) = {} THEN tbl \cup {StoredRow(treeId, estimate)}
  ELSE {IF r.tree_id = treeId
        THEN [r EXCEPT !.biomass_estimate_kg = estimate.biomass_estimate_kg,
                       !.carbon_sequestration_kg = estimate.carbon_sequestration_kg]
        ELSE r : r \in tbl}

\* INSERT INTO carbon_estimates ... ON CONFLICT (tree_id) DO UPDATE SET the
\* four columns: one statement
UpsertEstimate(tbl, treeId, estimate) ==
  {r \in tbl : r.tree_id # treeId} \cup {StoredRow(treeId, estimate)}

storeEstimate(treeId, estimate) ==
  /\ nStore < MaxStore
  /\ nStore' = nStore + 1
  /\ carbon_estimates' = UpsertEstimate(carbon_estimates, treeId, estimate)
  /\ h' = BumpSlots("none", "storeEstimate", "none")
  /\ pkgGhost' = BumpPkgs("storeEstimate", "none", NoPkg)
  /\ UNCHANGED <<now, nReq, dbVars, fsVars, out, trees, carbon_market_prices, tampers,
                 estVars, serviceVars>>

\* INSERT INTO carbon_market_prices (...) VALUES (..., NOW()): the database's
\* clock orders the rows as they are inserted
\* INSERT INTO carbon_market_prices (...) VALUES (..., NOW()): the dates of
\* successive inserts increase
InsertPrice(tbl, priceUSD, priceINR) ==
  Append(tbl, [price_usd |-> priceUSD, price_inr |-> priceINR, date |-> Len(tbl) + 1])

updateMarketPrices(priceUSD, priceINR) ==
  /\ nStore < MaxStore
  /\ nStore' = nStore + 1
  /\ carbon_market_prices' = InsertPrice(carbon_market_prices, priceUSD, priceINR)
  /\ h' = BumpSlots("none", "updateMarketPrices", "none")
  /\ pkgGhost' = BumpPkgs("updateMarketPrices", "none", NoPkg)
  /\ UNCHANGED <<now, nReq, dbVars, fsVars, out, trees, carbon_estimates, tampers, estVars,
                 serviceVars>>

\* ----------------------------------------------- the estimation service
\* the call of estimateBiomass with measurements m
Estimate(m) ==
  /\ ~est.called /\ est.m = m
  /\ est' = [est EXCEPT !.r = estimateBiomass(m), !.called = TRUE]
  /\ UNCHANGED <<now, nReq, dbVars, fsVars, h, out, pkgGhost, tampers, trees, carbon_estimates,
                 carbon_market_prices, nStore, eh, eout, nEstimate,
                 serviceVars>>

\* getSpeciesData catches a failure of its query and answers null: the
\* estimator then goes on as for a species that is not in the table
LookedUp(m, dbFail) == IF dbFail THEN [m EXCEPT !.species_code = NoSpecies] ELSE m

\* a second call of estimateBiomass with the measurements of the first;
\* the query of the species table succeeds or fails
Reestimate(dbFail) ==
  /\ est.called /\ ~est.again
  /\ est' = [est EXCEPT !.prev = est.r, !.r = estimateBiomass(LookedUp(est.m, dbFail)),
                        !.again = TRUE]
  /\ UNCHANGED <<now, nReq, dbVars, fsVars, h, out, pkgGhost, tampers, trees, carbon_estimates,
                 carbon_market_prices, nStore, eh, eout, nEstimate,
                 serviceVars>>

TreeIdArgs == TreeIds \cup {0}        \* 0 is the id of no tree
Answered(op, status, error, id) ==
  [NoAnswer EXCEPT !.op = op, !.status = status, !.error = error, !.id = id]

\* !v for a number, null or undefined
Falsy(v) == v = NullNum \/ v = 0
AtLeastOne == "At least one measurement (height, DBH, or canopy cover) is required"

\* an input check that asks for a height or a canopy cover
HasUsableMeasurement(m) == ~Falsy(m.height_meters) \/ ~Falsy(m.canopy_cover_m2)

\* the input check of POST /api/estimate, negated
HasMeasurement(m) ==
  ~(Falsy(m.height_meters) /\ Falsy(m.dbh_cm) /\ Falsy(m.canopy_cover_m2))

\* POST /api/estimate with the measurements est.m as its body
PostEstimate(dbFail) ==
  /\ ~est.called /\ eout.op = "none"
  /\ IF ~HasMeasurement(est.m)
     THEN /\ eout' = Answered("estimate", 400, AtLeastOne, 0)
          /\ UNCHANGED est
     ELSE LET estimate == estimateBiomass(LookedUp(est.m, dbFail))
          IN  /\ est' = [est EXCEPT !.r = estimate, !.called = TRUE]
              /\ eout' = IF estimate.ok
                         THEN [Answered("estimate", 200, "", 0) EXCEPT !.estimate = estimate]
                         ELSE Answered("estimate", 400, estimate.error, 0)
  /\ UNCHANGED <<now, nReq, dbVars, fsVars, h, out, pkgGhost, tampers, trees, carbon_estimates,
                 carbon_market_prices, nStore, eh, nEstimate, serviceVars>>

\* POST /tree/:treeId up to the estimate: the tree is read and estimated
EstimateTreeStart(s, treeId) ==
  /\ eh[s].pc = "idle"
  /\ nEstimate < MaxEstimate
  /\ nEstimate' = nEstimate + 1
  /\ IF treeId \notin DOMAIN trees
     THEN /\ eout' = Answered("tree", 404, "Tree not found", treeId)
          /\ UNCHANGED eh
     ELSE LET estimate == estimateBiomass(trees[treeId].m)
          IN  IF estimate.ok
              THEN /\ eh' = [eh EXCEPT ![s] = [pc |-> "store", treeId |-> treeId,
                                                estimate |-> estimate]]
                   /\ UNCHANGED eout
              ELSE /\ eout' = Answered("tree", 500, estimate.error, treeId)
                   /\ UNCHANGED eh
  /\ UNCHANGED <<now, nReq, dbVars, fsVars, h, out, pkgGhost, tampers, trees, carbon_estimates,
                 carbon_market_prices, nStore, est,
                 serviceVars>>

\* POST /tree/:treeId from storeEstimate to the response
EstimateTreeStore(s) ==
  /\ eh[s].pc = "store"
  /\ carbon_estimates' = UpsertEstimate(carbon_estimates, eh[s].treeId, eh[s].estimate)
  /\ eout' = [Answered("tree", 200, "", eh[s].treeId) EXCEPT
                !.estimate = eh[s].estimate,
                !.stored = StoredRow(eh[s].treeId, eh[s].estimate)]
  /\ eh' = [eh EXCEPT ![s] = EIdle]
  /\ UNCHANGED <<now, nReq, dbVars, fsVars, h, out, pkgGhost, tampers, trees,
                 carbon_market_prices, nStore, est, nEstimate,
                 serviceVars>>

\* SELECT * FROM trees WHERE plot_id = $1 ORDER BY id
RECURSIVE IdsFrom(_, _, _)
IdsFrom(tbl, plotId, id) ==
  IF id \notin DOMAIN tbl THEN <<>>
  ELSE (IF tbl[id].plot_id = plotId THEN <<id>> ELSE <<>>) \o IdsFrom(tbl, plotId, id + 1)
TreesOfPlot(tbl, plotId) == IdsFrom(tbl, plotId, 1)

\* the loop without the per-tree catch: the first failure ends it
RECURSIVE EstimateEachUntilFailure(_, _)
EstimateEachUntilFailure(tbl, ids) ==
  IF ids = <<>> THEN <<>>
  ELSE LET estimate == estimateBiomass(tbl[Head(ids)].m)
       IN  IF estimate.ok
           THEN <<[tree_id |-> Head(ids), estimate |-> estimate]>>
                  \o EstimateEachUntilFailure(tbl, Tail(ids))
           ELSE <<>>

\* for (const tree of trees) { try { estimates.push(...) } catch { skip } }
RECURSIVE EstimateEach(_, _)
EstimateEach(tbl, ids) ==
  IF ids = <<>> THEN <<>>
  ELSE LET estimate == estimateBiomass(tbl[Head(ids)].m)
           rest == EstimateEach(tbl, Tail(ids))
       IN  IF estimate.ok
           THEN <<[tree_id |-> Head(ids), estimate |-> estimate]>> \o rest
           ELSE rest

RECURSIVE SumSeq(_)
SumSeq(q) == IF q = <<>> THEN 0 ELSE Head(q) + SumSeq(Tail(q))

\* estimatePlotBiomass: the estimates of the trees that could be estimated
\* and their totals
estimatePlotBiomass(tbl, plotId) ==
  LET estimates == EstimateEach(tbl, TreesOfPlot(tbl, plotId))
      estimatedTrees == Len(estimates)
      totalBiomass == SumSeq([i \in 1 .. estimatedTrees |->
                                estimates[i].estimate.biomass_estimate_kg])
      totalCarbon == SumSeq([i \in 1 .. estimatedTrees |->
                               estimates[i].estimate.carbon_sequestration_kg])
      totalCo2 == SumSeq([i \in 1 .. estimatedTrees |->
                            estimates[i].estimate.co2_equivalent_kg])
      totalUncertainty == SumSeq([i \in 1 .. estimatedTrees |->
                                    estimates[i].estimate.uncertainty_pct])
  IN  [ trees |-> estimates,
        totals |->
          [ total_trees |-> estimatedTrees,
            total_biomass_kg |-> Round(totalBiomass * 100, 100),
            total_carbon_kg |-> Round(totalCarbon * 100, 100),
            total_co2_equivalent_kg |-> Round(totalCo2 * 100, 100),
            average_uncertainty_pct |->
              IF estimatedTrees > 0 THEN Round(totalUncertainty, estimatedTrees) ELSE 0 ] ]

\* one call of estimatePlotBiomass
EstimatePlot(plotId) ==
  /\ nEstimate < MaxEstimate
  /\ nEstimate' = nEstimate + 1
  /\ eout' = [Answered("plot", 200, "", plotId) EXCEPT
                !.result = estimatePlotBiomass(trees, plotId)]
  /\ UNCHANGED <<now, nReq, dbVars, fsVars, h, out, pkgGhost, tampers, trees, carbon_estimates,
                 carbon_market_prices, nStore, est, eh,
                 serviceVars>>

\* ----------------------------------------------- the carbon credit service
\* Amounts: biomass and kg in hundredths of a kg, tons and credits in
\* thousandths, prices and values in hundredths of the currency unit.
CARBON_FRACTION == 47
CO2_MOLECULAR_RATIO == 367
DefaultPriceUSD == 850
DefaultPriceINR == 70000

\* Math.round(n / d) for n >= 0 and an even d
RoundTo(n, d) == (n + d \div 2) \div d

\* the credits taken from the CO2 equivalent already rounded to 0.01 kg
CreditsFromRoundedKg(co2Equivalent) == RoundTo(RoundTo(co2Equivalent, 10000), 100)

\* Math.round(creditsGenerated * 1000) / 1000, with creditsGenerated =
\* co2EquivalentKg / 1000 and co2Equivalent in millionths of a kg
CreditsGenerated(co2Equivalent) == RoundTo(co2Equivalent, 1000000)

calculateCredits(biomassKg) ==
  LET carbonStock == biomassKg * CARBON_FRACTION           \* in 1/10000 kg
      co2Equivalent == carbonStock * CO2_MOLECULAR_RATIO    \* in 1/1000000 kg
  IN  [ carbonStockKg |-> RoundTo(carbonStock, 100),
        carbonStockTons |-> RoundTo(carbonStock, 10000),
        co2EquivalentKg |-> RoundTo(co2Equivalent, 10000),
        co2EquivalentTons |-> RoundTo(co2Equivalent, 1000000),
        creditsGenerated |-> CreditsGenerated(co2Equivalent) ]

\* SELECT * FROM carbon_market_prices ORDER BY date DESC LIMIT 1; a failure
\* of the query is caught and answered as "no record"
NoPrice == [price_usd |-> NullNum, price_inr |-> NullNum, date |-> 0]
getLatestMarketPrice(tbl, dbFail) ==
  IF dbFail \/ tbl = <<>> THEN NoPrice
  ELSE tbl[CHOOSE i \in 1 .. Len(tbl) : \A j \in 1 .. Len(tbl) : tbl[j].date <= tbl[i].date]

calculateCarbonCreditsWithPricing(biomassKg, tbl, dbFail, t) ==
  LET credits == calculateCredits(biomassKg)
      marketPrice == getLatestMarketPrice(tbl, dbFail)
      priceUSD == OrDefault(marketPrice.price_usd, DefaultPriceUSD)
      priceINR == OrDefault(marketPrice.price_inr, DefaultPriceINR)
  IN  [ biomass_kg |-> biomassKg,
        carbon_stock_kg |-> credits.carbonStockKg,
        carbon_stock_tons |-> credits.carbonStockTons,
        co2_equivalent_kg |-> credits.co2EquivalentKg,
        co2_equivalent_tons |-> credits.co2EquivalentTons,
        credits_generated |-> credits.creditsGenerated,
        market_price_usd |-> priceUSD, market_price_inr |-> priceINR,
        estimated_value_usd |-> RoundTo(credits.creditsGenerated * priceUSD, 1000),
        estimated_value_inr |-> RoundTo(credits.creditsGenerated * priceINR, 1000),
        calculation_date |-> t ]

BiomassArgs == {0, 1, 58, 1652, 100000}
PriceArgs == {<<900, 75000>>, <<1200, 99000>>, <<0, 0>>}
UserIds == {"u1"}
CreditAnswered(op, status) == [NoCreditAnswer EXCEPT !.op = op, !.status = status]
creditFrame ==
  <<now, nReq, dbVars, fsVars, h, out, pkgGhost, tampers, trees, carbon_estimates, nStore,
    estVars, anchored, ledgerVars, recordVars>>

\* one call of calculateCredits
CalculateCredits(biomassKg) ==
  /\ nCredit < MaxCredit
  /\ nCredit' = nCredit + 1
  /\ credit' = [CreditAnswered("credits", 200) EXCEPT
                  !.biomassKg = biomassKg, !.credits = calculateCredits(biomassKg)]
  /\ UNCHANGED <<creditFrame, carbon_market_prices, ch, carbon_credit_calculations>>

\* POST /credits/calculate
PostCalculate(biomass_kg, dbFail) ==
  /\ nCredit < MaxCredit
  /\ nCredit' = nCredit + 1
  /\ credit' =
       IF biomass_kg <= 0 THEN CreditAnswered("calculate", 400)
       ELSE [CreditAnswered("calculate", 200) EXCEPT
               !.biomassKg = biomass_kg,
               !.result = calculateCarbonCreditsWithPricing(biomass_kg, carbon_market_prices,
                                                            dbFail, now),
               !.prices = carbon_market_prices, !.dbFail = dbFail]
  /\ UNCHANGED <<creditFrame, carbon_market_prices, ch, carbon_credit_calculations>>

\* POST /credits/plot/:plotId up to the calculation: the plot is estimated
\* and, with a positive total biomass, the credits are priced
PostPlotCalculate(userId, plotId, dbFail) ==
  /\ ch.pc = "idle"
  /\ nCredit < MaxCredit
  /\ nCredit' = nCredit + 1
  /\ LET total == estimatePlotBiomass(trees, plotId).totals.total_biomass_kg
     IN  IF total <= 0
         THEN /\ credit' = CreditAnswered("plot", 400)
              /\ UNCHANGED ch
         ELSE /\ ch' = [pc |-> "store", userId |-> userId, plotId |-> plotId,
                        result |-> calculateCarbonCreditsWithPricing(
                                     total, carbon_market_prices, dbFail, now),
                        prices |-> carbon_market_prices, dbFail |-> dbFail]
              /\ UNCHANGED credit
  /\ UNCHANGED <<creditFrame, carbon_market_prices, carbon_credit_calculations>>

\* an INSERT that, for a user and plot already stored, replaces the row
UpsertCalculation(tbl, userId, plotId, result) ==
  LET row == [user_id |-> userId, plot_id |-> plotId, result |-> result]
  IN  IF \E i \in 1 .. Len(tbl) : tbl[i].user_id = userId /\ tbl[i].plot_id = plotId
      THEN [i \in 1 .. Len(tbl) |->
              IF tbl[i].user_id = userId /\ tbl[i].plot_id = plotId THEN row ELSE tbl[i]]
      ELSE Append(tbl, row)

\* INSERT INTO carbon_credit_calculations (...) VALUES (...) RETURNING *
storeCarbonCreditCalculation(tbl, userId, plotId, result) ==
  Append(tbl, [user_id |-> userId, plot_id |-> plotId, result |-> result])

\* POST /credits/plot/:plotId from the store to the response
PostPlotStore(dbFail) ==
  /\ ch.pc = "store"
  /\ IF dbFail
     THEN /\ credit' = CreditAnswered("plot", 500)
          /\ UNCHANGED carbon_credit_calculations
     ELSE /\ carbon_credit_calculations' =
               storeCarbonCreditCalculation(carbon_credit_calculations, ch.userId, ch.plotId,
                                            ch.result)
          /\ credit' = [CreditAnswered("plot", 200) EXCEPT
                          !.biomassKg = ch.result.biomass_kg, !.result = ch.result,
                          !.stored = [user_id |-> ch.userId, plot_id |-> ch.plotId,
                                      result |-> ch.result],
                          !.prices = ch.prices, !.dbFail = ch.dbFail]
  /\ ch' = CIdle
  /\ UNCHANGED <<creditFrame, carbon_market_prices, nCredit>>

\* POST /credits/market-price
PostMarketPrice(price_usd, price_inr) ==
  /\ nCredit < MaxCredit
  /\ nCredit' = nCredit + 1
  /\ IF price_usd <= 0 \/ price_inr <= 0
     THEN /\ credit' = [credit EXCEPT !.op = "price", !.status = 400]
          /\ UNCHANGED carbon_market_prices
     ELSE /\ carbon_market_prices' = InsertPrice(carbon_market_prices, price_usd, price_inr)
          /\ credit' = [credit EXCEPT !.op = "price", !.status = 200]
  /\ UNCHANGED <<creditFrame, ch, carbon_credit_calculations>>

CreditService ==
  \/ \E biomassKg \in BiomassArgs : CalculateCredits(biomassKg)
  \/ \E biomass_kg \in BiomassArgs, dbFail \in BOOLEAN : PostCalculate(biomass_kg, dbFail)
  \/ \E userId \in UserIds, plotId \in PlotIds, dbFail \in BOOLEAN :
       PostPlotCalculate(userId, plotId, dbFail)
  \/ \E dbFail \in BOOLEAN : PostPlotStore(dbFail)
  \/ \E p \in PriceArgs : PostMarketPrice(p[1], p[2])
  \/ \E p \in PriceArgs : updateMarketPrices(p[1], p[2])

\* --------------------------- the storage area, changed from outside
PackageFolders == {UriToFolder(MRVPackage[id].artifactsUri) : id \in DOMAIN MRVPackage}

TamperFile(path, content) ==
  /\ tampers < MaxTamper
  /\ path \in DOMAIN files
  /\ path.folder \in PackageFolders
  /\ files[path] # content
  /\ tampers' = tampers + 1
  /\ files' = [files EXCEPT ![path] = content]
  /\ h' = BumpSlots("none", "env", "none")
  /\ pkgGhost' = BumpPkgs("env", "none", NoPkg)
  /\ UNCHANGED <<now, nReq, dbVars, folders, everWritten, out, otherTables>>

DeleteFile(path) ==
  /\ tampers < MaxTamper
  /\ path \in DOMAIN files
  /\ path.folder \in PackageFolders
  /\ tampers' = tampers + 1
  /\ files' = [p \in DOMAIN files \ {path} |-> files[p]]
  /\ h' = BumpSlots("none", "env", "none")
  /\ pkgGhost' = BumpPkgs("env", "none", NoPkg)
  /\ UNCHANGED <<now, nReq, dbVars, folders, everWritten, out, otherTables>>

DeleteFolder(folder) ==
  /\ tampers < MaxTamper
  /\ folder \in folders
  /\ folder \in PackageFolders
  /\ tampers' = tampers + 1
  /\ folders' = folders \ {folder}
  /\ files' = [p \in {q \in DOMAIN files : q.folder # folder} |-> files[p]]
  /\ h' = BumpSlots("none", "env", "none")
  /\ pkgGhost' = BumpPkgs("env", "none", NoPkg)
  /\ UNCHANGED <<now, nReq, dbVars, everWritten, out, otherTables>>

\* checksums.json rewritten with the same keys and one recorded digest changed
JunkDigests == {sha256OfContent(Junk(1))}
RewriteDigest(path, i, digest) ==
  /\ tampers < MaxTamper
  /\ path \in DOMAIN files
  /\ path.folder \in PackageFolders
  /\ path.name = ChecksumsName
  /\ Parses(files[path])
  /\ i \in 1 .. Len(files[path].files)
  /\ files[path].files[i].digest # digest
  /\ tampers' = tampers + 1
  /\ files' = [files EXCEPT ![path] =
                 ChecksumsDoc([files[path].files EXCEPT ![i].digest = digest])]
  /\ h' = BumpSlots("none", "env", "none")
  /\ pkgGhost' = BumpPkgs("env", "none", NoPkg)
  /\ UNCHANGED <<now, nReq, dbVars, folders, everWritten, out, otherTables>>

\* ------------------------------------------------- the ledger controller
\* carbon_estimates has one row per tree (unique tree_id): the id of an
\* estimate is modelled by the tree id of its row; 0 is a missing estimate_id.
LedgerEstimateArgs == {0, 1, 2}
LedgerTxArgs == {"", "tx1"}
\* Math.floor(Math.random() * 1000000) + 1000000: the ends of the range
BlockNumbers == {1000000, 1999999}

\* tx_id || null
TxOrNull(tx_id) == IF tx_id = "" THEN "null" ELSE tx_id

\* SELECT * FROM ledger WHERE estimate_id = $1
EntriesOf(tbl, estimate_id) == {i \in DOMAIN tbl : tbl[i].estimate_id = estimate_id}

\* sha256 of JSON.stringify(estimate) + new Date().toISOString()
LedgerHash(estimate, t) == sha256OfString(<<estimate, t>>)

LedgerAnswered(status, estimate_id, entry, dbFail) ==
  [status |-> status, estimate_id |-> estimate_id, entry |-> entry, dbFail |-> dbFail]

ledgerFrame ==
  <<nReq, dbVars, fsVars, h, out, pkgGhost, tampers, trees, carbon_estimates,
    carbon_market_prices, nStore, estVars, creditVars, anchored, recordVars>>

\* the request arrives: the validation of the body
LedgerStart(s, estimate_id, tx_id) ==
  /\ lh[s].pc = "idle"
  /\ nLedger < MaxLedger
  /\ nLedger' = nLedger + 1
  /\ IF estimate_id = 0
     THEN /\ lout' = LedgerAnswered(400, estimate_id, 0, FALSE)
          /\ UNCHANGED lh
     ELSE /\ lh' = [lh EXCEPT ![s] = [LIdle EXCEPT !.pc = "estimate",
                                       !.estimate_id = estimate_id, !.tx_id = tx_id]]
          /\ UNCHANGED lout
  /\ UNCHANGED <<now, ledger, ledgerFrame>>

\* SELECT * FROM carbon_estimates WHERE id = $1, and the check of its rows
LedgerEstimate(s, dbFail) ==
  /\ lh[s].pc = "estimate"
  /\ LET rows == StoredOf(carbon_estimates, lh[s].estimate_id)
     IN  IF dbFail
         THEN /\ lout' = LedgerAnswered(500, lh[s].estimate_id, 0, TRUE)
              /\ lh' = [lh EXCEPT ![s] = LIdle]
         ELSE IF rows = {}
         THEN /\ lout' = LedgerAnswered(400, lh[s].estimate_id, 0, FALSE)
              /\ lh' = [lh EXCEPT ![s] = LIdle]
         ELSE /\ lh' = [lh EXCEPT ![s].pc = "existing",
                                  ![s].estimate = CHOOSE r \in rows : TRUE]
              /\ UNCHANGED lout
  /\ UNCHANGED <<now, ledger, nLedger, ledgerFrame>>

\* existingEntry.rows.length > 0
AlreadyVerified(rows) == rows # {}

\* SELECT * FROM ledger WHERE estimate_id = $1, the check of its rows, and the
\* hash built before the insert is sent
LedgerExisting(s, dbFail) ==
  /\ lh[s].pc = "existing"
  /\ IF dbFail
     THEN /\ lout' = LedgerAnswered(500, lh[s].estimate_id, 0, TRUE)
          /\ lh' = [lh EXCEPT ![s] = LIdle]
          /\ UNCHANGED now
     ELSE IF AlreadyVerified(EntriesOf(ledger, lh[s].estimate_id))
     THEN /\ lout' = LedgerAnswered(409, lh[s].estimate_id, 0, FALSE)
          /\ lh' = [lh EXCEPT ![s] = LIdle]
          /\ UNCHANGED now
     ELSE /\ \E t \in Times :
               /\ ClockRead(t)
               /\ lh' = [lh EXCEPT ![s].pc = "insert",
                                   ![s].hash = LedgerHash(lh[s].estimate, t)]
          /\ UNCHANGED lout
  /\ UNCHANGED <<ledger, nLedger, ledgerFrame>>

\* INSERT INTO ledger (estimate_id, hash, block_number, tx_id) ... RETURNING *
InsertLedger(tbl, estimate_id, hash, block_number, tx_id) ==
  Append(tbl, [estimate_id |-> estimate_id, hash |-> hash, block_number |-> block_number,
               tx_id |-> tx_id])

\* the insert runs, and the response
LedgerInsert(s, block_number, dbFail) ==
  /\ lh[s].pc = "insert"
  /\ IF dbFail
     THEN /\ lout' = LedgerAnswered(500, lh[s].estimate_id, 0, TRUE)
          /\ UNCHANGED ledger
     ELSE /\ ledger' = InsertLedger(ledger, lh[s].estimate_id, lh[s].hash, block_number,
                                    TxOrNull(lh[s].tx_id))
          /\ lout' = LedgerAnswered(201, lh[s].estimate_id, Len(ledger) + 1, FALSE)
  /\ lh' = [lh EXCEPT ![s] = LIdle]
  /\ UNCHANGED <<now, nLedger, ledgerFrame>>

\* ------------------------------- the blockchain service, simulation mode
\* CarbonData: the fields the record keeps; values in kg
CarbonDataArgs ==
  { [farmId |-> "f1", plotId |-> "p1", treeId |-> "", carbonValue |-> 5, biomassValue |-> 10,
     methodology |-> "allometric"] }
UserAddressArgs == {"", "0xuser"}
DemoAddress == "0x742d35Cc6644C0532925a3b8D1f9524fC35e0aa1"
\* `0x${crypto.randomBytes(32).toString('hex')}`
MockTxHashes == {"0xaa", "0xbb"}
\* Math.floor(Math.random() * 10000) + 1000: the ends of the range
MockRecordIds == {1000, 10999}
\* Math.floor(Math.random() * 1000000) + 45000000: the ends of the range
MockBlockNumbers == {45000000, 45999999}

\* sha256 of the JSON of the data
generateDataHash(data) == sha256OfString(data)

\* userAddress || the demo address
MockAddress(userAddress) == IF userAddress = "" THEN DemoAddress ELSE userAddress

\* INSERT INTO carbon_credit_blockchain (...) VALUES (..., 'pending', NOW()):
\* the database assigns the id
storePendingTransaction(tbl, transactionHash, farmerAddress, data, dataHash) ==
  Append(tbl, [ transaction_hash |-> transactionHash, farmer_address |-> farmerAddress,
                plot_id |-> data.plotId, tree_id |-> data.treeId,
                carbon_value_kg |-> data.carbonValue, biomass_value_kg |-> data.biomassValue,
                data_hash |-> dataHash, methodology |-> data.methodology,
                status |-> "pending", blockchain_record_id |-> 0, block_number |-> 0,
                gas_used |-> "" ])

recordFrame ==
  <<now, nReq, dbVars, fsVars, h, out, pkgGhost, tampers, trees, carbon_estimates,
    carbon_market_prices, nStore, estVars, creditVars, anchored, ledgerVars>>

\* recordCarbonData up to the insert of the pending record; a failed insert
\* is thrown on by the catch
RecordStore(data, userAddress, mockTxHash, dbFail) ==
  /\ rh.pc = "idle"
  /\ nRecord < MaxRecord
  /\ nRecord' = nRecord + 1
  /\ LET dataHash == generateDataHash(data)
         mockAddress == MockAddress(userAddress)
     IN  IF dbFail
         THEN /\ rout' = [NoRecord EXCEPT !.error = TRUE]
              /\ UNCHANGED <<carbon_credit_blockchain, rh>>
         ELSE /\ carbon_credit_blockchain' =
                   storePendingTransaction(carbon_credit_blockchain, mockTxHash, mockAddress,
                                           data, dataHash)
              /\ rh' = [pc |-> "schedule", id |-> Len(carbon_credit_blockchain) + 1,
                        transactionHash |-> mockTxHash, farmer |-> mockAddress,
                        dataHash |-> dataHash, carbonValue |-> data.carbonValue]
              /\ UNCHANGED rout
  /\ UNCHANGED <<timers, recordFrame>>

\* setTimeout(() => this.simulateConfirmation(mockTxHash, dbRecord.id), 2000)
\* and the record returned
RecordReturn ==
  /\ rh.pc = "schedule"
  /\ timers' = (rh.id :> "wait") @@ timers
  /\ rout' = [ error |-> FALSE, recordId |-> 0, transactionHash |-> rh.transactionHash,
               blockNumber |-> 0, gasUsed |-> "21000", status |-> "pending",
               farmer |-> rh.farmer, dataHash |-> rh.dataHash,
               carbonValue |-> rh.carbonValue ]
  /\ rh' = RIdle
  /\ UNCHANGED <<carbon_credit_blockchain, nRecord, recordFrame>>

\* UPDATE carbon_credit_blockchain SET status = 'confirmed', ... WHERE id = $4
ConfirmUpdate(tbl, mockRecordId, mockBlockNumber, dbRecordId) ==
  [id \in DOMAIN tbl |->
     IF id = dbRecordId
     THEN [tbl[id] EXCEPT !.status = "confirmed", !.blockchain_record_id = mockRecordId,
                          !.block_number = mockBlockNumber, !.gas_used = "21000"]
     ELSE tbl[id]]

\* UPDATE carbon_credit_blockchain SET status = $1 WHERE id = $2
StatusUpdate(tbl, status, dbRecordId) ==
  [id \in DOMAIN tbl |-> IF id = dbRecordId THEN [tbl[id] EXCEPT !.status = status] ELSE tbl[id]]

\* the timer fires: the try block of simulateConfirmation
SimulateConfirmation(dbRecordId, mockRecordId, mockBlockNumber, dbFail) ==
  /\ dbRecordId \in DOMAIN timers
  /\ timers[dbRecordId] = "wait"
  /\ IF dbFail
     THEN /\ timers' = [timers EXCEPT ![dbRecordId] = "catch"]
          /\ UNCHANGED carbon_credit_blockchain
     ELSE /\ carbon_credit_blockchain' =
               ConfirmUpdate(carbon_credit_blockchain, mockRecordId, mockBlockNumber,
                             dbRecordId)
          /\ timers' = [timers EXCEPT ![dbRecordId] = "done"]
  /\ UNCHANGED <<rh, rout, nRecord, recordFrame>>

\* the catch block of simulateConfirmation: its update is awaited outside any
\* try, a failure of it ends the callback
SimulateConfirmationFailed(dbRecordId, dbFail) ==
  /\ dbRecordId \in DOMAIN timers
  /\ timers[dbRecordId] = "catch"
  /\ IF dbFail
     THEN UNCHANGED carbon_credit_blockchain
     ELSE carbon_credit_blockchain' =
            StatusUpdate(carbon_credit_blockchain, "failed", dbRecordId)
  /\ timers' = [timers EXCEPT ![dbRecordId] = "done"]
  /\ UNCHANGED <<rh, rout, nRecord, recordFrame>>

\* ------------------------------------------------------------ the system
AllFolders == {PackageFolder(p, t) : p \in PlotTbl, t \in Times}
AllPaths == {Path(f, n) : f \in AllFolders, n \in AllNames}
\* the hash passed with a package id: the package's checksum when it exists
AnchorArgs(pkgId) ==
  IF pkgId \in DOMAIN MRVPackage THEN {MRVPackage[pkgId].checksum} ELSE {NullHash}

Export ==
  \/ \E s \in Slots, plotId \in PlotIdArgs : ExportStart(s, plotId)
  \/ \E s \in Slots : ExportWrite(s)
  \/ \E s \in Slots : ExportInsert(s)
  \/ \E s \in Slots : ExportAnchor(s)

Verify ==
  \/ \E s \in Slots, pkgId \in PkgIdArgs : VerifyStart(s, pkgId)
  \/ \E s \in Slots : VerifyCheck(s)

Stores ==
  \/ \E id \in TreeIds, m \in TreeUpdates : updateTree(id, m)
  \/ \E treeId \in TreeIds, estimate \in EstimateArgs : storeEstimate(treeId, estimate)
  \/ \E priceUSD \in PriceVals, priceINR \in InrVals : updateMarketPrices(priceUSD, priceINR)
  \/ \E pkgId \in PkgIdArgs : \E hashHex \in AnchorArgs(pkgId) : AnchorHash(pkgId, hashHex)

Outside ==
  \/ \E path \in AllPaths, content \in JunkContents : TamperFile(path, content)
  \/ \E path \in AllPaths : DeleteFile(path)
  \/ \E folder \in AllFolders : DeleteFolder(folder)

EstimationService ==
  \/ \E s \in Slots, treeId \in TreeIdArgs : EstimateTreeStart(s, treeId)
  \/ \E s \in Slots : EstimateTreeStore(s)
  \/ \E plotId \in PlotIds : EstimatePlot(plotId)
  \/ \E id \in TreeIds, m \in TreeUpdates : updateTree(id, m)
  \/ \E treeId \in TreeIds, estimate \in EstimateArgs : storeEstimate(treeId, estimate)

LedgerController ==
  \/ \E s \in Slots, estimate_id \in LedgerEstimateArgs, tx_id \in LedgerTxArgs :
       LedgerStart(s, estimate_id, tx_id)
  \/ \E s \in Slots, dbFail \in BOOLEAN : LedgerEstimate(s, dbFail)
  \/ \E s \in Slots, dbFail \in BOOLEAN : LedgerExisting(s, dbFail)
  \/ \E s \in Slots, block_number \in BlockNumbers, dbFail \in BOOLEAN :
       LedgerInsert(s, block_number, dbFail)
  \/ \E treeId \in TreeIds, estimate \in EstimateArgs : storeEstimate(treeId, estimate)

RecordIds == 1 .. MaxRecord
BlockchainService ==
  \/ \E data \in CarbonDataArgs, userAddress \in UserAddressArgs, mockTxHash \in MockTxHashes,
        dbFail \in BOOLEAN : RecordStore(data, userAddress, mockTxHash, dbFail)
  \/ RecordReturn
  \/ \E dbRecordId \in RecordIds, mockRecordId \in MockRecordIds,
        mockBlockNumber \in MockBlockNumbers, dbFail \in BOOLEAN :
       SimulateConfirmation(dbRecordId, mockRecordId, mockBlockNumber, dbFail)
  \/ \E dbRecordId \in RecordIds, dbFail \in BOOLEAN :
       SimulateConfirmationFailed(dbRecordId, dbFail)

\* no handler is in flight
Quiet == \A s \in Slots : Free(s)

\* the pipeline with requests served one after another
ExportInTurn ==
  \/ \E s \in Slots, plotId \in PlotIdArgs : Quiet /\ ExportStart(s, plotId)
  \/ \E s \in Slots : ExportWrite(s)
  \/ \E s \in Slots : ExportInsert(s)
  \/ \E s \in Slots : ExportAnchor(s)

VerifyInTurn ==
  \/ \E s \in Slots, pkgId \in PkgIdArgs : Quiet /\ VerifyStart(s, pkgId)
  \/ \E s \in Slots : VerifyCheck(s)

\* the package pipeline alone, two handlers in flight
Next == Export \/ Verify
Spec == Init /\ [][Next]_vars

\* the pipeline, one request at a time, with the writers of the other stores
\* and direct anchor calls
NextStores == ExportInTurn \/ VerifyInTurn \/ Stores
SpecStores == Init /\ [][NextStores]_vars

\* the pipeline, one request at a time, with the storage area changed from outside
NextOutside == ExportInTurn \/ VerifyInTurn \/ Outside
SpecOutside == Init /\ [][NextOutside]_vars

\* estimateBiomass applied to every combination of measurements
NextEstimator == \E m \in Measurements : Estimate(m)
SpecEstimator == InitEstimator /\ [][NextEstimator]_vars

\* estimateBiomass called twice with the same measurements
NextReestimate == NextEstimator \/ \E dbFail \in BOOLEAN : Reestimate(dbFail)
SpecReestimate == InitEstimator /\ [][NextReestimate]_vars

\* the pipeline, one request at a time, with the digests recorded in
\* checksums.json changed from outside
NextDigests ==
  \/ ExportInTurn
  \/ VerifyInTurn
  \/ \E path \in AllPaths, i \in 1 .. 4, digest \in JunkDigests : RewriteDigest(path, i, digest)
SpecDigests == Init /\ [][NextDigests]_vars

\* POST /api/estimate applied to every combination of measurements
NextPostEstimate == \E dbFail \in BOOLEAN : PostEstimate(dbFail)
SpecPostEstimate == InitEstimator /\ [][NextPostEstimate]_vars

\* the carbon credit service with the updates of the market prices
NextCredit == CreditService
SpecCredit == Init /\ [][NextCredit]_vars

\* the estimation service: two tree requests in flight, plot estimates, and
\* the writers of trees and carbon_estimates
NextEstimate == EstimationService
SpecEstimate == InitEstimate /\ [][NextEstimate]_vars

\* the ledger controller, two requests in flight, with the writer of
\* carbon_estimates
NextLedger == LedgerController
SpecLedger == Init /\ [][NextLedger]_vars

\* the blockchain service in simulation mode: record calls one after
\* another, their confirmations scheduled
NextRecord == BlockchainService
SpecRecord == Init /\ [][NextRecord]_vars

\* ---------------------------------------------------------- properties
\* the last answered request is a verify of a package that exists
VerifiedPackage == out.op = "verify" /\ out.pkgArg \in DOMAIN MRVPackage
VerifyMatched == out.resp.status = 200 /\ "matches" \in out.resp.keys /\ out.resp.matches
VerifyMismatched == out.resp.status = 200 /\ "matches" \in out.resp.keys /\ ~out.resp.matches

FolderOf(id) == UriToFolder(MRVPackage[id].artifactsUri)

\* C1: for a plot with at least one tree, a verify of a package that follows
\* its export with no other operation in between answers matches = true.
C1_RoundTrip ==
  (VerifiedPackage /\ out.lvl = 0 /\ TreesOf(out.plotId) # {}) => VerifyMatched

C1_Witness ==
  VerifiedPackage /\ out.lvl = 0 /\ TreesOf(out.plotId) # {} /\ VerifyMatched

\* exactly one of the four artifacts of package id differs from what the
\* export wrote; every other file of the package is as written
OneArtifactChanged(id) ==
  LET folder == FolderOf(id)
      orig == pkgGhost[id].orig
  IN  /\ folder \in folders
      /\ \A n \in AllNames : Path(folder, n) \in DOMAIN files
      /\ \E n \in ArtifactNames :
           /\ files[Path(folder, n)] # orig[n]
           /\ \A m \in AllNames \ {n} : files[Path(folder, m)] = orig[m]

\* C2: when the content of one artifact file of an exported package has been
\* changed and nothing else, a verify of the package answers matches = false.
C2_TamperDetected ==
  [][\A s \in Slots :
       (/\ h[s].pc = "check"
        /\ OneArtifactChanged(h[s].pkgArg)
        /\ VerifyCheck(s))
       => (out'.resp.status = 200 /\ "matches" \in out'.resp.keys /\ ~out'.resp.matches)]_vars

C2_Witness ==
  VerifiedPackage /\ tampers > 0 /\ OneArtifactChanged(out.pkgArg) /\ VerifyMismatched

\* C3: no export writes a file path that another export has written.
C3_NoSharedPath == (\A s \in Slots : ~h[s].overwrote) /\ ~out.overwrote

\* C4: every export request for an existing plot that meets no I/O failure
\* succeeds and creates a package record of its own.
C4_OnePackagePerExport ==
  (out.op = "export" /\ out.plotId \in PlotTbl /\ out.failAt = 0)
    => (out.resp.status = 200 /\ out.pkgId \in DOMAIN MRVPackage)

\* C5: a package record exists only if the four artifacts and checksums.json
\* were written and the four hashes computed; an export in which a write or
\* a hash failed answers with an error and has inserted no record.
C5_NoPartialPackage ==
  /\ \A id \in DOMAIN MRVPackage :
       pkgGhost[id].written = AllNames /\ pkgGhost[id].hashed = ArtifactNames
  /\ (out.op = "export" /\ out.failAt \in 1 .. 9)
       => ("error" \in out.resp.keys /\ out.pkgId = NoPkg)

C5_Witness ==
  /\ out.op = "export" /\ out.failAt = 6
  /\ out.written = ArtifactNames /\ out.hashed # ArtifactNames
  /\ "error" \in out.resp.keys /\ out.pkgId = NoPkg

\* C6: when the export endpoint answers with an error, no package record
\* created by that request is in the table.
C6_ErrorLeavesNoPackage ==
  (out.op = "export" /\ "error" \in out.resp.keys) => out.pkgId \notin DOMAIN MRVPackage

\* C7: an export of a plot id that does not resolve is answered with a client
\* error status, a file write or hash failure with a server error status.
C7_ErrorClasses ==
  /\ (out.op = "export" /\ out.plotId \notin PlotTbl) => out.resp.status \in 400 .. 499
  /\ (out.op = "export" /\ out.failAt \in 1 .. 9) => out.resp.status \in 500 .. 599

\* the files checksums.json of the folder lists, when it can be read
ListedFiles(folder) ==
  LET c == files[Path(folder, ChecksumsName)]
  IN  {c.files[i].key : i \in 1 .. Len(c.files)}
Readable(folder) ==
  /\ folder \in folders
  /\ Path(folder, ChecksumsName) \in DOMAIN files
  /\ Parses(files[Path(folder, ChecksumsName)])
NotFoundAnswer(resp) == resp.status = 404 /\ resp.keys = {"error"}

\* C8: verify answers not found, without a matches value, when the package
\* record, the artifacts folder or checksums.json is absent; it answers
\* matches = false only when every listed file was hashed again and the
\* recomputed checksum differs from the stored one; a listed file that is
\* missing gives an error answer, never matches = false.
C8_VerifyOutcomes ==
  [][/\ \A s \in Slots, pkgId \in PkgIdArgs :
          (pkgId \notin DOMAIN MRVPackage /\ VerifyStart(s, pkgId))
            => NotFoundAnswer(out'.resp)
     /\ \A s \in Slots :
          (h[s].pc = "check" /\ VerifyCheck(s)) =>
            LET folder == UriToFolder(h[s].row.artifactsUri)
                resp == out'.resp
            IN  /\ folder \notin folders => NotFoundAnswer(resp)
                /\ Path(folder, ChecksumsName) \notin DOMAIN files => NotFoundAnswer(resp)
                /\ ("matches" \in resp.keys /\ ~resp.matches) =>
                     /\ Readable(folder)
                     /\ ListedFiles(folder) \subseteq DOMAIN files
                     /\ resp.recomputed # h[s].row.checksum
                /\ (Readable(folder) /\ ~(ListedFiles(folder) \subseteq DOMAIN files)) =>
                     (resp.status = 500 /\ resp.keys = {"error"})]_vars

C8_Witness ==
  /\ VerifiedPackage
  /\ out.resp.status = 500 /\ out.resp.error = "Failed to hash file"
  /\ Readable(FolderOf(out.pkgArg))
  /\ ~(ListedFiles(FolderOf(out.pkgArg)) \subseteq DOMAIN files)

\* the files and the stored checksum of package id are as its export left them
AsExported(id) ==
  /\ FolderOf(id) \in folders
  /\ \A n \in AllNames :
       /\ Path(FolderOf(id), n) \in DOMAIN files
       /\ files[Path(FolderOf(id), n)] = pkgGhost[id].orig[n]
  /\ MRVPackage[id].checksum = TopHash(pkgGhost[id].orig[ChecksumsName].files)

\* C9: while the only operations since a package's export are tree updates,
\* estimate stores, price updates, exports of other plots, anchor calls and
\* verify calls, its files and stored checksum stay as exported, and a
\* verify of it after such operations answers matches = true.
C9_PointInTimeCopy ==
  /\ \A id \in DOMAIN MRVPackage : pkgGhost[id].lvl <= 1 => AsExported(id)
  /\ (VerifiedPackage /\ out.lvl = 1) => VerifyMatched

C9_Witness ==
  /\ VerifiedPackage /\ out.lvl = 1 /\ VerifyMatched
  /\ nStore > 0 /\ Len(MRVPackage) > 1
  /\ pkgGhost[out.pkgArg].lvl = 1 /\ AsExported(out.pkgArg)

\* C10: a step of verify, whatever it answers, leaves the package records
\* and every file and folder of the storage area as they were.
C10_VerifyDetectionOnly ==
  [][((\E s \in Slots, pkgId \in PkgIdArgs : VerifyStart(s, pkgId))
        \/ (\E s \in Slots : h[s].pc = "check" /\ VerifyCheck(s)))
       => (MRVPackage' = MRVPackage /\ files' = files /\ folders' = folders)]_vars

C10_Witness ==
  /\ VerifiedPackage /\ VerifyMismatched
  /\ MRVPackage[out.pkgArg].checksum = out.resp.hash
  /\ MRVPackage[out.pkgArg].checksum # out.resp.recomputed

\* ---------------------------------------------------------------------
\* The estimator (SpecEstimator)
\* ---------------------------------------------------------------------

\* the conditions of the ladder, stated on the measurements
HasHeight(m) == m.height_meters # NullNum /\ m.height_meters > 0
HasDbh(m) == m.dbh_cm # NullNum /\ m.dbh_cm > 0
HasCanopy(m) == m.canopy_cover_m2 # NullNum /\ m.canopy_cover_m2 > 0
FullNames == {"allometric_species_", "allometric_generic"}
CrownName == "allometric_crown_estimated"
HeightName == "height_only_estimation"
CanopyName == "crown_area_estimation"

\* C13: the method is chosen by a strict priority ladder: full allometric
\* exactly when DBH and height are both positive; otherwise crown-estimated
\* exactly when height and canopy are positive; otherwise height-only exactly
\* when height is positive; otherwise canopy-only exactly when canopy is
\* positive; otherwise the estimation fails. One branch fires for an
\* input, and the method label returned is that branch's.
C13_MethodLadder ==
  est.called =>
    LET m == est.m
        name == est.r.method.name
        full == HasDbh(m) /\ HasHeight(m)
        crown == ~full /\ HasHeight(m) /\ HasCanopy(m)
        height == ~full /\ ~crown /\ HasHeight(m)
        canopy == ~full /\ ~crown /\ ~height /\ HasCanopy(m)
    IN  /\ est.r.ok <=> (full \/ crown \/ height \/ canopy)
        /\ est.r.ok =>
             /\ (name \in FullNames) <=> full
             /\ (name = CrownName) <=> crown
             /\ (name = HeightName) <=> height
             /\ (name = CanopyName) <=> canopy
             /\ name \in FullNames \cup {CrownName, HeightName, CanopyName}
        /\ ~est.r.ok => est.r.method = NoMethod

C13_Witness ==
  /\ est.called /\ est.r.ok
  /\ est.r.method.name = CrownName
  /\ HasHeight(est.m) /\ HasCanopy(est.m) /\ ~HasDbh(est.m)

\* C14: the canopy-only method fires only when the canopy value is positive
\* and neither a height nor a DBH measurement is available; no input
\* with a positive DBH is estimated by the canopy-only method.
C14_CanopyOnlyWithoutDbh ==
  (est.called /\ est.r.ok /\ est.r.method.name = CanopyName) =>
    HasCanopy(est.m) /\ ~HasHeight(est.m) /\ ~HasDbh(est.m)

\* C18: every estimate returned has a biomass of at least 0.1 kg.
C18_MinimumBiomass ==
  (est.called /\ est.r.ok) => est.r.biomass_estimate_kg >= 10

C18_Witness ==
  /\ est.called /\ est.r.ok
  /\ RawBiomass(est.m) < MinBiomassG
  /\ est.r.biomass_estimate_kg = 10

Abs(x) == IF x < 0 THEN 0 - x ELSE x

\* C19: on the values returned, carbon_sequestration_kg is
\* round(biomass_estimate_kg * 0.47, 2) and co2_equivalent_kg is
\* round(carbon_sequestration_kg * 3.67, 2), each within 0.01 kg.
C19_CarbonAndCo2FromReturned ==
  (est.called /\ est.r.ok) =>
    /\ Abs(est.r.carbon_sequestration_kg
             - Round(est.r.biomass_estimate_kg * CarbonFractionPct, 100)) <= 1
    /\ Abs(est.r.co2_equivalent_kg
             - Round(est.r.carbon_sequestration_kg * Co2FactorPct, 100)) <= 1

\* C20: the confidence is fixed by the method: full allometric gives 100
\* minus the species uncertainty whenever the species was resolved, for
\* every uncertainty the species record can hold, and 75 otherwise;
\* crown-estimated 60, height-only 40, canopy-only 35.
C20_ConfidenceByMethod ==
  (est.called /\ est.r.ok) =>
    LET name == est.r.method.name
        code == est.m.species_code
    IN  est.r.confidence_pct =
          CASE name \in FullNames ->
                 IF Resolved(code) THEN 100 - tree_species[code].uncertainty_pct ELSE 75
            [] name = CrownName -> 60
            [] name = HeightName -> 40
            [] OTHER -> 35

\* ---------------------------------------------------------------------
\* The estimation service (SpecEstimate)
\* ---------------------------------------------------------------------

NonePresent(m) == ~HasHeight(m) /\ ~HasDbh(m) /\ ~HasCanopy(m)
Estimable(m) == HasHeight(m) \/ HasCanopy(m)

\* C15: with none of height, DBH and canopy present the estimator raises the
\* 'insufficient measurements' error and returns no estimate; at
\* POST /tree/:treeId the error reaches the caller and no estimate is
\* stored or changed.
C15_InsufficientMeasurements ==
  /\ [](\A m \in Measurements :
          NonePresent(m) => /\ ~estimateBiomass(m).ok
                            /\ estimateBiomass(m) = [NoEstimate EXCEPT !.error = Insufficient])
  /\ [][\A s \in Slots, treeId \in TreeIds :
          (EstimateTreeStart(s, treeId) /\ NonePresent(trees[treeId].m)) =>
            /\ eout'.op = "tree" /\ eout'.id = treeId
            /\ eout'.status = 500 /\ eout'.error = Insufficient
            /\ eout'.estimate = NoEstimate /\ eout'.stored = NoStored
            /\ eh'[s].pc = "idle"
            /\ carbon_estimates' = carbon_estimates]_vars

C15_Witness ==
  /\ eout.op = "tree" /\ eout.status = 500 /\ eout.error = Insufficient
  /\ eout.id \in TreeIds /\ NonePresent(trees[eout.id].m)
  /\ \A s \in Slots : eh[s].pc = "idle"
  /\ StoredOf(carbon_estimates, eout.id) = {}

\* C16: estimatePlot does not fail because of a single tree: a tree whose
\* estimation fails is skipped, the result holds the trees of the plot that
\* could be estimated, in id order, total_trees is their number, the totals
\* are the sums over them, and the average uncertainty is 0 when there is
\* none.
C16_PlotPartialSuccess ==
  [][\A plotId \in PlotIds :
       EstimatePlot(plotId) =>
         LET res == eout'.result
             n == Len(res.trees)
             ok == {id \in DOMAIN trees : trees[id].plot_id = plotId /\ Estimable(trees[id].m)}
             col(f) == [i \in 1 .. n |-> res.trees[i].estimate[f]]
         IN  /\ eout'.op = "plot" /\ eout'.status = 200
             /\ {res.trees[i].tree_id : i \in 1 .. n} = ok
             /\ n = Cardinality(ok)
             /\ \A i, j \in 1 .. n : i < j => res.trees[i].tree_id < res.trees[j].tree_id
             /\ \A i \in 1 .. n :
                  /\ res.trees[i].estimate.ok
                  /\ res.trees[i].estimate = estimateBiomass(trees[res.trees[i].tree_id].m)
             /\ res.totals.total_trees = Cardinality(ok)
             /\ res.totals.total_biomass_kg = SumSeq(col("biomass_estimate_kg"))
             /\ res.totals.total_carbon_kg = SumSeq(col("carbon_sequestration_kg"))
             /\ res.totals.total_co2_equivalent_kg = SumSeq(col("co2_equivalent_kg"))
             /\ ok = {} => res.totals.average_uncertainty_pct = 0
             /\ ok # {} => Abs(res.totals.average_uncertainty_pct * n
                                 - SumSeq(col("uncertainty_pct"))) * 2 <= n]_vars

C16_Witness ==
  /\ eout.op = "plot" /\ eout.status = 200
  /\ Len(eout.result.trees) > 0
  /\ eout.result.totals.total_trees = Len(eout.result.trees)
  /\ \E id \in DOMAIN trees :
       /\ trees[id].plot_id = eout.id /\ ~Estimable(trees[id].m)
       /\ id < eout.result.trees[1].tree_id

\* a store of the estimate for the tree leaves that estimate as the row of
\* the tree and the rows of the other trees as they were
StoresWhole(treeId, estimate) ==
  /\ StoredOf(carbon_estimates', treeId) = {StoredRow(treeId, estimate)}
  /\ \A t \in TreeIds \ {treeId} : StoredOf(carbon_estimates', t) = StoredOf(carbon_estimates, t)

\* C17: after any sequence or interleaving of storeEstimate calls there is
\* at most one stored estimate per tree, and it equals, field for field, the
\* estimate one single call passed (the last to commit), never a mixture
\* of the fields of two calls.
C17_OneEstimatePerTree ==
  [][/\ \A t \in TreeIds : Cardinality(StoredOf(carbon_estimates', t)) <= 1
     /\ \A s \in Slots :
          (eh[s].pc = "store" /\ EstimateTreeStore(s)) =>
            StoresWhole(eh[s].treeId, eh[s].estimate)
     /\ \A t \in TreeIds, e \in EstimateArgs : storeEstimate(t, e) => StoresWhole(t, e)
     /\ carbon_estimates' # carbon_estimates =>
          \/ \E s \in Slots : eh[s].pc = "store" /\ EstimateTreeStore(s)
          \/ \E t \in TreeIds, e \in EstimateArgs : storeEstimate(t, e)]_vars

C17_Witness ==
  /\ eout.op = "tree" /\ eout.status = 200
  /\ Cardinality(StoredOf(carbon_estimates, eout.id)) = 1
  /\ StoredOf(carbon_estimates, eout.id) # {eout.stored}
  /\ \E e \in EstimateArgs : StoredOf(carbon_estimates, eout.id) = {StoredRow(eout.id, e)}

\* ---------------------------------------------------------------------
\* The ledger anchor and the totals of the export (Spec)
\* ---------------------------------------------------------------------

LedgerTxIdOf(tbl, id) == IF id \in DOMAIN tbl THEN tbl[id].ledgerTxId ELSE NullTx

\* the ledger id of an answered export is the one recorded, and a verify
\* that started after that answer reports it
AnchoredAsAnswered ==
  /\ \A id \in DOMAIN MRVPackage :
       pkgGhost[id].respTx # NullTx => MRVPackage[id].ledgerTxId = pkgGhost[id].respTx
  /\ (out.op = "export" /\ out.resp.status = 200) =>
       /\ out.resp.ledgerTxId # NullTx
       /\ pkgGhost[out.resp.pkgId].respTx = out.resp.ledgerTxId
  /\ (out.op = "verify" /\ out.resp.status = 200 /\ out.sawTx # NullTx) =>
       out.resp.ledgerTxId = out.sawTx

\* C11: a package has no ledger id from its creation until an anchor call
\* for it succeeds; once the export endpoint has answered successfully, the
\* record's ledgerTxId is the one of the export response and a later verify
\* reports the same; anchoring leaves checksum and artifactsUri as they
\* were.
C11_LedgerAnchor ==
  /\ []AnchoredAsAnswered
  /\ [][\A id \in DOMAIN MRVPackage' :
          /\ id \notin DOMAIN MRVPackage => MRVPackage'[id].ledgerTxId = NullTx
          /\ id \in DOMAIN MRVPackage =>
               /\ MRVPackage'[id].checksum = MRVPackage[id].checksum
               /\ MRVPackage'[id].artifactsUri = MRVPackage[id].artifactsUri
               /\ MRVPackage'[id].ledgerTxId # MRVPackage[id].ledgerTxId =>
                    \E s \in Slots :
                      /\ h[s].op = "export" /\ h[s].pc = "anchor" /\ h[s].pkgId = id
                      /\ ExportAnchor(s)
                      /\ out'.resp.status = 200
                      /\ out'.resp.ledgerTxId = MRVPackage'[id].ledgerTxId]_vars

C11_Witness ==
  /\ VerifiedPackage /\ out.resp.status = 200
  /\ out.sawTx # NullTx
  /\ out.resp.ledgerTxId = out.sawTx
  /\ MRVPackage[out.pkgArg].ledgerTxId = out.sawTx
  /\ Len(MRVPackage) > 1

\* the trees of a plot as the aggregator's query returns them
PlotTable(plotId) ==
  LET S == TreesOf(plotId)
      n == Cardinality(S)
      f == CHOOSE g \in [1 .. n -> S] : \A i, j \in 1 .. n : i # j => g[i] # g[j]
  IN  [i \in 1 .. n |-> [plot_id |-> plotId, m |-> MeasurementsOfTree(f[i])]]

\* C12: for a plot whose stored estimates are the aggregator's results, the
\* totals the export writes are the aggregator's: totalTrees is the number of
\* trees that have an estimate, plotAGBTons the total biomass kg / 1000 and
\* plotCarbonTons the total carbon kg / 1000.
C12_ExportTotalsAsAggregator ==
  CarbonEstimateTbl = EstimatorResults =>
    \A id \in DOMAIN pkgGhost :
      LET plotId == pkgGhost[id].plot
          written == pkgGhost[id].orig["outputs/estimates.json"].totals
          totals == estimatePlotBiomass(PlotTable(plotId), plotId).totals
      IN  /\ written.totalTrees = totals.total_trees
          /\ written.plotAGBTons = [kg |-> totals.total_biomass_kg, per |-> 1000]
          /\ written.plotCarbonTons = [kg |-> totals.total_carbon_kg, per |-> 1000]

\* ---------------------------------------------------------------------
\* Re-estimation (SpecReestimate)
\* ---------------------------------------------------------------------

\* C21: estimate called twice with identical measurements and an unchanged
\* species table yields outputs identical in every field, and a call of
\* estimate changes no state.
C21_IdempotentEstimate ==
  /\ [](est.again => est.r = est.prev)
  /\ [][((\E m \in Measurements : Estimate(m)) \/ (\E dbFail \in BOOLEAN : Reestimate(dbFail)))
          => UNCHANGED <<dbVars, fsVars, trees, carbon_estimates, carbon_market_prices>>]_vars

\* ---------------------------------------------------------------------
\* The carbon credit service (SpecCredit)
\* ---------------------------------------------------------------------

\* r is n / d rounded to the nearest integer, n >= 0 and d even
IsRounded(r, n, d) == r * d - d \div 2 <= n /\ n < r * d + d \div 2

\* C22: for every biomassKg >= 0, calculateCredits returns creditsGenerated =
\* round(biomassKg * 0.47 * 3.67 / 1000, 3), equal to co2EquivalentTons of the
\* same result; calculateCredits(1000) gives carbonStockKg 470,
\* co2EquivalentKg 1724.9 and creditsGenerated 1.725.
C22_CreditsGenerated ==
  credit.op = "credits" =>
    LET r == credit.credits
        x == credit.biomassKg * CARBON_FRACTION * CO2_MOLECULAR_RATIO
    IN  /\ IsRounded(r.creditsGenerated, x, 1000000)
        /\ r.creditsGenerated = r.co2EquivalentTons
        /\ credit.biomassKg = 100000 =>
             /\ r.carbonStockKg = 47000
             /\ r.co2EquivalentKg = 172490
             /\ r.creditsGenerated = 1725

C22_Witness ==
  /\ credit.op = "credits" /\ credit.biomassKg = 100000
  /\ credit.credits.creditsGenerated = 1725

\* C23: calculateCreditsWithPricing prices with the most recent market-price
\* record: after any sequence of price updates it uses the USD and INR
\* prices of the latest update, and the defaults 8.50 USD / 700 INR only
\* when no price record exists; each monetary value is
\* round(creditsGenerated * price, 2).
C23_LatestMarketPrice ==
  (credit.op \in {"calculate", "plot"} /\ credit.status = 200) =>
    LET r == credit.result
        tbl == credit.prices
    IN  /\ tbl = <<>> =>
             r.market_price_usd = DefaultPriceUSD /\ r.market_price_inr = DefaultPriceINR
        /\ tbl # <<>> =>
             /\ r.market_price_usd = tbl[Len(tbl)].price_usd
             /\ r.market_price_inr = tbl[Len(tbl)].price_inr
        /\ IsRounded(r.estimated_value_usd, r.credits_generated * r.market_price_usd, 1000)
        /\ IsRounded(r.estimated_value_inr, r.credits_generated * r.market_price_inr, 1000)

\* the calculations of the carbon credit service that read and compute
CreditReads ==
  \/ \E biomassKg \in BiomassArgs : CalculateCredits(biomassKg)
  \/ \E biomass_kg \in BiomassArgs, dbFail \in BOOLEAN : PostCalculate(biomass_kg, dbFail)
  \/ \E userId \in UserIds, plotId \in PlotIds, dbFail \in BOOLEAN :
       PostPlotCalculate(userId, plotId, dbFail)

\* C24: calculateCreditsWithPricing changes no persisted state, and a stored
\* snapshot is never modified afterwards: a later price update or a later
\* calculation and store for the same user and plot adds records and leaves
\* every earlier snapshot as it was.
C24_SnapshotsImmutable ==
  [][/\ CreditReads =>
          UNCHANGED <<carbon_credit_calculations, carbon_market_prices, trees,
                      carbon_estimates, dbVars, fsVars>>
     /\ Len(carbon_credit_calculations') >= Len(carbon_credit_calculations)
     /\ \A i \in 1 .. Len(carbon_credit_calculations) :
          carbon_credit_calculations'[i] = carbon_credit_calculations[i]
     /\ Len(carbon_market_prices') >= Len(carbon_market_prices)
     /\ \A i \in 1 .. Len(carbon_market_prices) :
          carbon_market_prices'[i] = carbon_market_prices[i]
     /\ (ch.pc = "store" /\ PostPlotStore(FALSE)) =>
          /\ Len(carbon_credit_calculations') = Len(carbon_credit_calculations) + 1
          /\ carbon_credit_calculations'[Len(carbon_credit_calculations')] = credit'.stored
          /\ credit'.stored.result = ch.result]_vars

C24_Witness ==
  /\ Len(carbon_credit_calculations) = 2
  /\ carbon_credit_calculations[1].user_id = carbon_credit_calculations[2].user_id
  /\ carbon_credit_calculations[1].plot_id = carbon_credit_calculations[2].plot_id
  /\ carbon_credit_calculations[1].result.market_price_usd
       # carbon_credit_calculations[2].result.market_price_usd
  /\ Len(carbon_market_prices) > 0

\* ---------------------------------------------------------------------
\* POST /api/estimate (SpecPostEstimate)
\* ---------------------------------------------------------------------

\* C25: estimate succeeds iff height > 0 or canopy > 0: an input whose only
\* positive measurement is the DBH is rejected with the 'insufficient
\* measurements' error, although the input check of the endpoint accepts it
\* as having a measurement.
C25_DbhAloneRejected ==
  /\ est.called => (est.r.ok <=> (HasHeight(est.m) \/ HasCanopy(est.m)))
  /\ eout.op = "estimate" =>
       /\ eout.status = 200 <=> (HasHeight(est.m) \/ HasCanopy(est.m))
       /\ eout.status = 200 => eout.estimate.ok /\ eout.estimate = est.r
       /\ (HasDbh(est.m) /\ ~HasHeight(est.m) /\ ~HasCanopy(est.m)) =>
            /\ est.called /\ ~est.r.ok
            /\ eout.status = 400 /\ eout.error = Insufficient
       /\ NonePresent(est.m) => eout.status = 400 /\ eout.error = AtLeastOne /\ ~est.called

C25_Witness ==
  /\ eout.op = "estimate" /\ eout.status = 400 /\ eout.error = Insufficient
  /\ est.called /\ ~est.r.ok
  /\ HasDbh(est.m) /\ ~HasHeight(est.m) /\ ~HasCanopy(est.m)

\* ---------------------------------------------------------------------
\* The digests recorded in checksums.json (SpecDigests)
\* ---------------------------------------------------------------------

\* the artifacts of the package are as exported and checksums.json lists the
\* exported keys with other digests
DigestsRewritten(id) ==
  LET folder == FolderOf(id)
      orig == pkgGhost[id].orig
      path == Path(folder, ChecksumsName)
  IN  /\ folder \in folders
      /\ \A n \in ArtifactNames :
           Path(folder, n) \in DOMAIN files /\ files[Path(folder, n)] = orig[n]
      /\ path \in DOMAIN files /\ Parses(files[path])
      /\ KeysOf(files[path].files) = KeysOf(orig[ChecksumsName].files)
      /\ files[path] # orig[ChecksumsName]

\* C26: the result of verify depends on checksums.json only through its
\* file keys: with the keys and the artifact files unchanged, changing the
\* recorded per-file digests leaves the recomputed checksum and matches as
\* they are with the exported checksums.json.
C26_RecordedDigestsUnused ==
  [][\A s \in Slots :
       (/\ h[s].pc = "check"
        /\ DigestsRewritten(h[s].pkgArg)
        /\ VerifyCheck(s))
       => LET id == h[s].pkgArg
              path == Path(FolderOf(id), ChecksumsName)
              exported == [files EXCEPT ![path] = pkgGhost[id].orig[ChecksumsName]]
              before == VerifyResponse(exported, folders, id, h[s].row)
          IN  /\ out'.resp.status = 200 /\ before.status = 200
              /\ out'.resp.recomputed = before.recomputed
              /\ out'.resp.matches = before.matches
              /\ out'.resp.recomputed = TopHash(pkgGhost[id].orig[ChecksumsName].files)]_vars

C26_Witness ==
  /\ VerifiedPackage /\ VerifyMatched
  /\ tampers > 0 /\ DigestsRewritten(out.pkgArg)
  /\ out.resp.recomputed = MRVPackage[out.pkgArg].checksum

\* ---------------------------------------------------------------------
\* Failed exports and anchor calls for unknown packages
\* ---------------------------------------------------------------------

\* handler s fails in this step after its four artifacts were written: the
\* hashing throws, or the insert of the package record is refused
FailsAfterArtifacts(s) ==
  /\ h[s].op = "export" /\ h'[s].pc = "idle"
  /\ \/ h[s].pc = "write" /\ ExportWrite(s) /\ out'.failAt \in 5 .. 8
     \/ h[s].pc = "insert" /\ ExportInsert(s)
  /\ "error" \in out'.resp.keys

\* the folder a failing export has written to
FailedFolder(s) ==
  IF h[s].pc = "insert" THEN h[s].folder ELSE PackageFolder(h[s].plotId, now')

\* C27: when an export fails after its artifacts were written (a hashing
\* failure, or a failure to insert the package record), the files written
\* stay in the package folder and no package record refers to them.
C27_FailedExportLeavesFiles ==
  [][\A s \in Slots :
       FailsAfterArtifacts(s) =>
         /\ out'.pkgId = NoPkg
         /\ MRVPackage' = MRVPackage
         /\ ArtifactNames \subseteq out'.written
         /\ FailedFolder(s) \in folders'
         /\ \A n \in ArtifactNames : Path(FailedFolder(s), n) \in DOMAIN files'
         /\ \A id \in DOMAIN MRVPackage' :
              MRVPackage'[id].artifactsUri # ArtifactsUri(FailedFolder(s))]_vars

\* C28: anchorHash called with a package id for which no package record
\* exists returns a transaction id without any error, and the call creates
\* no package record and changes none.
C28_AnchorUnknownPackage ==
  [][\A pkgId \in PkgIdArgs : \A hashHex \in AnchorArgs(pkgId) :
       (pkgId \notin DOMAIN MRVPackage /\ AnchorHash(pkgId, hashHex)) =>
         /\ ~anchored'.error
         /\ anchored'.txId = TxId(now', hashHex)
         /\ anchored'.txId # NullTx
         /\ MRVPackage' = MRVPackage]_vars

\* an anchor call has matched no row while package records exist
C28_Witness ==
  /\ anchored.rowCount = 0
  /\ anchored.txId # NullTx
  /\ MRVPackage # <<>>
  /\ \A id \in DOMAIN MRVPackage : MRVPackage[id].ledgerTxId # anchored.txId

\* ---------------------------------------------------------------------
\* Ledger entries
\* ---------------------------------------------------------------------

\* C29: after any interleaving of createLedgerEntry requests at most one
\* ledger entry exists per carbon estimate: a request for an estimate that
\* already has a ledger entry is rejected with a conflict (409) and inserts
\* nothing, also when two requests for the same estimate run concurrently.
C29_OneEntryPerEstimate ==
  /\ [](\A e \in LedgerEstimateArgs : Cardinality(EntriesOf(ledger, e)) <= 1)
  /\ [][\A s \in Slots :
         (/\ lh[s].pc \in {"existing", "insert"}
          /\ lh'[s].pc = "idle"
          /\ EntriesOf(ledger, lh[s].estimate_id) # {}
          /\ ~lout'.dbFail)
         => (lout'.status = 409 /\ ledger' = ledger)]_vars

\* ---------------------------------------------------------------------
\* Simulated blockchain records
\* ---------------------------------------------------------------------

\* a record created in this step is stored as pending; a record returned in
\* this step is returned as pending
CreatedPending ==
  /\ Len(carbon_credit_blockchain') > Len(carbon_credit_blockchain) =>
       carbon_credit_blockchain'[Len(carbon_credit_blockchain')].status = "pending"
  /\ (rh.pc = "schedule" /\ RecordReturn) =>
       (rout'.status = "pending" /\ carbon_credit_blockchain'[rh.id].status = "pending")

\* the status of a record changes only from pending, to confirmed or failed
StatusMovesOn ==
  \A id \in DOMAIN carbon_credit_blockchain :
    /\ id \in DOMAIN carbon_credit_blockchain'
    /\ carbon_credit_blockchain'[id].status # carbon_credit_blockchain[id].status =>
         /\ carbon_credit_blockchain[id].status = "pending"
         /\ carbon_credit_blockchain'[id].status \in {"confirmed", "failed"}

\* C30: in simulation mode every record created by recordCarbonData is stored
\* with status pending and returned as pending; afterwards its status changes
\* at most once, to confirmed or to failed, never back to pending, and once
\* the scheduled confirmation has run the record is no longer pending.
C30_PendingThenSettled ==
  /\ [](\A id \in DOMAIN timers :
          timers[id] = "done" => carbon_credit_blockchain[id].status # "pending")
  /\ [][CreatedPending /\ StatusMovesOn]_vars

====
